---- MODULE Spec2Model ----
(***************************************************************************)
(* Model of semstrait-js src/utils.ts: the attribute resolver              *)
(* (getAttributeRef), the alias resolver (attributeAlias, getAttribute),   *)
(* the value formatter (formatAttributeValue, formatDate), the pivot       *)
(* engine (pivot) and the conformed-dimension test (isConformedQuery).     *)
(*                                                                         *)
(* A JavaScript string is a sequence of one-character strings, so that     *)
(* split('.'), join, template concatenation and the code-unit order of     *)
(* Array.prototype.sort are computed and not assumed.                      *)
(***************************************************************************)
EXTENDS Integers, Sequences, FiniteSets, TLC

VARIABLES
    schema,      \* pivot argument: the Schema (its semantic_models list)
    modelName,   \* pivot argument: the model name
    query,       \* pivot argument: [rows, columns, metrics]
    data,        \* pivot argument: the raw rows
    pc,          \* position of the pivot call
    model,       \* the model found at utils.ts:33
    idx,         \* number of raw rows the data.map callback has consumed
    resultMap,   \* the Map<string, RowData>, as its entries in insertion order
    columnArr,   \* the column keys pushed so far
    result,      \* the returned RowData[] (meaningful when pc = "done")
    err,         \* the error thrown (meaningful when pc = "error")
    rModel,      \* resolver call: the model argument
    rSegs,       \* resolver call: the segments the path argument is written from
    rPath,       \* resolver call: the path argument
    rPc,         \* resolver call: position
    rRef,        \* resolver call: outcome of getAttributeRef
    rAlias,      \* resolver call: outcome of attributeAlias
    rAttr,       \* resolver call: outcome of getAttribute
    prior,       \* outcome of the previous pivot call on the same arguments
    rPrior,      \* outcome of the previous resolver calls on the same arguments
    uCall,       \* utility call: the function called and its arguments
    uPc,         \* utility call: position
    uRet         \* utility call: the value returned

vars == <<schema, modelName, query, data, pc, model, idx, resultMap,
          columnArr, result, err, rModel, rSegs, rPath, rPc, rRef, rAlias,
          rAttr, prior, rPrior, uCall, uPc, uRet>>

pivotVars == <<schema, modelName, query, data, pc, model, idx, resultMap,
               columnArr, result, err, prior>>

resolverVars == <<rModel, rSegs, rPath, rPc, rRef, rAlias, rAttr, rPrior>>

utilVars == <<uCall, uPc, uRet>>

-----------------------------------------------------------------------------
(* Bounds of the checked instances *)

MaxRows == 2

-----------------------------------------------------------------------------
(* JavaScript strings *)

\* The printable ASCII characters in code order, " " (32) to "~" (126);
\* "GRAVE" stands for the grave accent (96), which no modelled string uses.
Printable ==
    <<" ", "!", "\"", "#", "$", "%", "&", "'", "(", ")", "*", "+", ",", "-",
      ".", "/", "0", "1", "2", "3", "4", "5", "6", "7", "8", "9", ":", ";",
      "<", "=", ">", "?", "@", "A", "B", "C", "D", "E", "F", "G", "H", "I",
      "J", "K", "L", "M", "N", "O", "P", "Q", "R", "S", "T", "U", "V", "W",
      "X", "Y", "Z", "[", "\\", "]", "^", "_", "GRAVE", "a", "b", "c", "d", "e",
      "f", "g", "h", "i", "j", "k", "l", "m", "n", "o", "p", "q", "r", "s",
      "t", "u", "v", "w", "x", "y", "z", "{", "|", "}", "~">>

Chars == {Printable[i] : i \in DOMAIN Printable}

\* UTF-16 code unit of a character.
CodeOf == [c \in Chars |-> 31 + (CHOOSE i \in DOMAIN Printable : Printable[i] = c)]

DigitChar(d) == Printable[17 + d]

IsDigit(c) == CodeOf[c] >= 48 /\ CodeOf[c] <= 57

DigitVal(c) == CodeOf[c] - 48

\* String.prototype.toLowerCase on ASCII.
ToLowerCase(s) ==
    [i \in DOMAIN s |->
        IF CodeOf[s[i]] >= 65 /\ CodeOf[s[i]] <= 90
        THEN Printable[CodeOf[s[i]] + 32 - 31]
        ELSE s[i]]

\* The comparison Array.prototype.sort uses without a comparator:
\* lexicographic on code units, a proper prefix first.
RECURSIVE StrLess(_, _)
StrLess(a, b) ==
    IF b = <<>> THEN FALSE
    ELSE IF a = <<>> THEN TRUE
    ELSE IF a[1] = b[1] THEN StrLess(Tail(a), Tail(b))
    ELSE CodeOf[a[1]] < CodeOf[b[1]]

\* String.prototype.split(sep) for a one-character separator.
RECURSIVE SplitFrom(_, _, _)
SplitFrom(s, sep, cur) ==
    IF s = <<>> THEN <<cur>>
    ELSE IF s[1] = sep THEN <<cur>> \o SplitFrom(Tail(s), sep, <<>>)
    ELSE SplitFrom(Tail(s), sep, Append(cur, s[1]))

Split(s, sep) == SplitFrom(s, sep, <<>>)

\* Array.prototype.join(sep) on an array of strings.
RECURSIVE Join(_, _)
Join(parts, sep) ==
    IF parts = <<>> THEN <<>>
    ELSE IF Len(parts) = 1 THEN parts[1]
    ELSE parts[1] \o sep \o Join(Tail(parts), sep)

\* Number.prototype.toString for an integer.
RECURSIVE NatToStr(_)
NatToStr(n) ==
    IF n < 10 THEN <<DigitChar(n)>>
    ELSE Append(NatToStr(n \div 10), DigitChar(n % 10))

NumToStr(n) == IF n < 0 THEN <<"-">> \o NatToStr(0 - n) ELSE NatToStr(n)

\* String(n).padStart(2, '0') for 0 <= n.
Pad2(n) == IF n < 10 THEN <<"0">> \o NatToStr(n) ELSE NatToStr(n)

\* Array.prototype.indexOf(v) === i filter: first occurrences only.
RECURSIVE Dedupe(_)
Dedupe(seq) ==
    IF seq = <<>> THEN <<>>
    ELSE LET init == Dedupe(SubSeq(seq, 1, Len(seq) - 1))
             last == seq[Len(seq)]
         IN  IF \E i \in DOMAIN init : init[i] = last THEN init
             ELSE Append(init, last)

\* Array.prototype.sort() of an array of distinct strings.
RECURSIVE SortStrings(_)
SortStrings(seq) ==
    IF seq = <<>> THEN <<>>
    ELSE LET m == CHOOSE i \in DOMAIN seq :
                      \A j \in DOMAIN seq : ~StrLess(seq[j], seq[i])
             rest == [k \in 1..(Len(seq) - 1) |-> IF k < m THEN seq[k] ELSE seq[k + 1]]
         IN  <<seq[m]>> \o SortStrings(rest)

-----------------------------------------------------------------------------
(* JavaScript values of a raw row: string | number | null, or undefined    *)
(* when the key is absent.                                                 *)

Null == [t |-> "null", n |-> 0, s |-> <<>>]
Undefined == [t |-> "undefined", n |-> 0, s |-> <<>>]
Num(n) == [t |-> "number", n |-> n, s |-> <<>>]
Str(s) == [t |-> "string", n |-> 0, s |-> s]
NaN == [t |-> "NaN", n |-> 0, s |-> <<>>]

\* row[key]
RowGet(row, key) == IF key \in DOMAIN row THEN row[key] ELSE Undefined

\* Template-literal / string-concatenation conversion `${v}`.
TemplateStr(v) ==
    CASE v.t = "null" -> <<"n", "u", "l", "l">>
      [] v.t = "undefined" -> <<"u", "n", "d", "e", "f", "i", "n", "e", "d">>
      [] v.t = "number" -> NumToStr(v.n)
      [] v.t = "NaN" -> <<"N", "a", "N">>
      [] v.t = "string" -> v.s

\* Truthiness of a raw value.
Truthy(v) ==
    CASE v.t = "null" -> FALSE
      [] v.t = "undefined" -> FALSE
      [] v.t = "NaN" -> FALSE
      [] v.t = "number" -> v.n # 0
      [] v.t = "string" -> v.s # <<>>

\* The leading decimal integer parseInt(s, 10) and parseFloat(s) read:
\* an optional sign and the longest run of digits; NaN when there is no digit.
\* (The strings of the checked instances have no fraction or exponent part.)
RECURSIVE DigitsPrefix(_)
DigitsPrefix(s) ==
    IF s = <<>> \/ ~IsDigit(s[1]) THEN <<>>
    ELSE <<s[1]>> \o DigitsPrefix(Tail(s))

RECURSIVE DigitsVal(_, _)
DigitsVal(ds, acc) ==
    IF ds = <<>> THEN acc ELSE DigitsVal(Tail(ds), acc * 10 + DigitVal(ds[1]))

RECURSIVE SkipSpaces(_)
SkipSpaces(s) == IF s # <<>> /\ s[1] = " " THEN SkipSpaces(Tail(s)) ELSE s

ParseNumber(s0) ==
    LET s == SkipSpaces(s0)
        neg == s # <<>> /\ s[1] = "-"
        body == IF s # <<>> /\ s[1] \in {"-", "+"} THEN Tail(s) ELSE s
        ds == DigitsPrefix(body)
    IN  IF ds = <<>> THEN NaN
        ELSE Num(IF neg THEN 0 - DigitsVal(ds, 0) ELSE DigitsVal(ds, 0))

-----------------------------------------------------------------------------
(* Outcome of a call that may throw *)

Ok(v) == [ok |-> TRUE, err |-> "none", val |-> v]
Throw(e, dflt) == [ok |-> FALSE, err |-> e, val |-> dflt]

\* Array.prototype.find(x => x.name === n): index of the first element with
\* that name, 0 if none.
RECURSIVE NameIndexFrom(_, _, _)
NameIndexFrom(seq, n, i) ==
    IF i > Len(seq) THEN 0
    ELSE IF seq[i].name = n THEN i
    ELSE NameIndexFrom(seq, n, i + 1)

IndexOfName(seq, n) == NameIndexFrom(seq, n, 1)

-----------------------------------------------------------------------------
(* Schema values (types.ts).  An optional field is a flag plus a value.    *)
(*   Attribute             [name, hasType, type]                           *)
(*   Dimension             [name, hasAlias, alias, attributes, virtual]    *)
(*   DatasetGroupDimension [name, hasAttributes, attributes]               *)
(*   DatasetGroup          [name, dimensions]                              *)
(*   SemanticModel         [name, hasDimensions, dimensions, datasetGroups]*)
(*   AttributeRef          [dimension, attribute, hasQualifier,            *)
(*                          datasetGroupQualifier]                         *)
(* The model's dataset groups are read as model.datasetGroups, the name    *)
(* utils.ts uses.                                                          *)

NoDimRef == [name |-> <<>>, hasAttributes |-> FALSE, attributes |-> <<>>]
NoRef == [dimension |-> NoDimRef, attribute |-> <<>>, hasQualifier |-> FALSE,
          datasetGroupQualifier |-> <<>>]
NoAttribute == [name |-> <<>>, hasType |-> FALSE, type |-> <<>>]

\* getAttribute's undefined result
NoAttributeFound == [def |-> FALSE, v |-> NoAttribute]

\* model.dimensions || []  and  model.dimensions?.find(...)
ModelDimensions(m) == IF m.hasDimensions THEN m.dimensions ELSE <<>>

\* { dimension: dimRef, attribute: attName, datasetGroupQualifier: dgName }
QualifiedRef(dimRef, attName, dgName) ==
    [dimension |-> dimRef, attribute |-> attName, hasQualifier |-> TRUE,
     datasetGroupQualifier |-> dgName]

\* { dimension: dimRef, attribute: attName }
UnqualifiedRef(dimRef, attName) ==
    [dimension |-> dimRef, attribute |-> attName, hasQualifier |-> FALSE,
     datasetGroupQualifier |-> <<>>]

\* Index of the first dataset group, from i on, that declares dimension
\* dimName; 0 if none.
RECURSIVE GroupDeclaringFrom(_, _, _)
GroupDeclaringFrom(groups, dimName, i) ==
    IF i > Len(groups) THEN 0
    ELSE IF IndexOfName(groups[i].dimensions, dimName) # 0 THEN i
    ELSE GroupDeclaringFrom(groups, dimName, i + 1)

\* Index of the last dataset group, from i down, that declares dimName.
RECURSIVE GroupDeclaringDownFrom(_, _, _)
GroupDeclaringDownFrom(groups, dimName, i) ==
    IF i = 0 THEN 0
    ELSE IF IndexOfName(groups[i].dimensions, dimName) # 0 THEN i
    ELSE GroupDeclaringDownFrom(groups, dimName, i - 1)

\* utils.ts:154-159, the dimension of the dataset group found
DimensionOfGroup(group, dimName, attName, dgName) ==
    IF IndexOfName(group.dimensions, dimName) # 0
    THEN Ok(QualifiedRef(group.dimensions[IndexOfName(group.dimensions, dimName)],
                         attName, dgName))
    ELSE Throw("DimensionNotFound", NoRef)

QualifiedLookupBug(m, dgName, dimName, attName) ==
    IF IndexOfName(m.datasetGroups, dgName) = 0 THEN Throw("GroupingNotFound", NoRef)
    ELSE IF GroupDeclaringFrom(m.datasetGroups, dimName, 1) = 0
    THEN Throw("DimensionNotFound", NoRef)
    ELSE DimensionOfGroup(m.datasetGroups[GroupDeclaringFrom(m.datasetGroups, dimName, 1)],
                          dimName, attName, dgName)

\* utils.ts:144-160, the three-part path
QualifiedLookup(m, dgName, dimName, attName) ==
    IF IndexOfName(m.datasetGroups, dgName) = 0 THEN Throw("GroupingNotFound", NoRef)
    ELSE DimensionOfGroup(m.datasetGroups[IndexOfName(m.datasetGroups, dgName)],
                          dimName, attName, dgName)

ModelDimAsRefBug(modelDim) ==
    [name |-> modelDim.name, hasAttributes |-> FALSE, attributes |-> <<>>]

\* The model-level Dimension converted to a DatasetGroupDimension-compatible object.
ModelDimAsRef(modelDim) ==
    [name |-> modelDim.name, hasAttributes |-> TRUE, attributes |-> modelDim.attributes]

\* utils.ts:168-171, the DimensionRef of the dataset group the loop stops at
DimensionInGroup(group, dimName, attName) ==
    Ok(UnqualifiedRef(group.dimensions[IndexOfName(group.dimensions, dimName)], attName))

\* utils.ts:175-186, the model-level dimensions
ModelLevelLookup(m, dimName, attName) ==
    IF IndexOfName(ModelDimensions(m), dimName) # 0
    THEN Ok(UnqualifiedRef(
                ModelDimAsRef(ModelDimensions(m)[IndexOfName(ModelDimensions(m), dimName)]),
                attName))
    ELSE Throw("DimensionNotFound", NoRef)

UnqualifiedLookupBug(m, dimName, attName) ==
    IF IndexOfName(ModelDimensions(m), dimName) # 0
    THEN ModelLevelLookup(m, dimName, attName)
    ELSE IF GroupDeclaringFrom(m.datasetGroups, dimName, 1) # 0
    THEN DimensionInGroup(
             m.datasetGroups[GroupDeclaringDownFrom(m.datasetGroups, dimName,
                                                    Len(m.datasetGroups))],
             dimName, attName)
    ELSE Throw("DimensionNotFound", NoRef)

\* utils.ts:163-187, the two-part path
UnqualifiedLookup(m, dimName, attName) ==
    IF GroupDeclaringFrom(m.datasetGroups, dimName, 1) # 0
    THEN DimensionInGroup(m.datasetGroups[GroupDeclaringFrom(m.datasetGroups, dimName, 1)],
                          dimName, attName)
    ELSE ModelLevelLookup(m, dimName, attName)

RefOfPartsBug(parts, m) ==
    IF Len(parts) >= 3 THEN QualifiedLookup(m, parts[1], parts[2], parts[3])
    ELSE IF Len(parts) = 2 THEN UnqualifiedLookup(m, parts[1], parts[2])
    ELSE Throw("InvalidPathFormat", NoRef)

\* utils.ts:144-189 on parts = dimAtt.split('.')
RefOfParts(parts, m) ==
    IF Len(parts) = 3 THEN QualifiedLookup(m, parts[1], parts[2], parts[3])
    ELSE IF Len(parts) = 2 THEN UnqualifiedLookup(m, parts[1], parts[2])
    ELSE Throw("InvalidPathFormat", NoRef)

getAttributeRef(dimAtt, m) == RefOfParts(Split(dimAtt, "."), m)

\* attributeRef.datasetGroupQualifier is tested for truthiness: '' counts as absent.
QualifierPrefix(ref) ==
    IF ref.hasQualifier /\ ref.datasetGroupQualifier # <<>>
    THEN ref.datasetGroupQualifier \o <<".">>
    ELSE <<>>

\* Index of the inline attribute of the reference's name, 0 if the
\* DimensionRef has no attributes or none of that name (utils.ts:194-196).
InlineIndex(ref) ==
    IF ref.dimension.hasAttributes
    THEN IndexOfName(ref.dimension.attributes, ref.attribute)
    ELSE 0

DimAliasBug(dimension) == dimension.name

\* dimension.alias ?? dimension.name
DimAlias(dimension) == IF dimension.hasAlias THEN dimension.alias ELSE dimension.name

AliasInDimensionBug(dimension, ref) ==
    Ok(QualifierPrefix(ref) \o DimAlias(dimension) \o <<".">> \o ref.attribute)

\* utils.ts:210-220 on the model-level dimension found
AliasInDimension(dimension, ref) ==
    IF IndexOfName(dimension.attributes, ref.attribute) = 0
    THEN Throw("AttributeNotFound", <<>>)
    ELSE Ok(QualifierPrefix(ref) \o DimAlias(dimension) \o <<".">>
            \o dimension.attributes[IndexOfName(dimension.attributes, ref.attribute)].name)

attributeAliasBug(dimensions, ref) ==
    IF InlineIndex(ref) # 0
    THEN Ok(QualifierPrefix(ref)
            \o (IF IndexOfName(dimensions, ref.dimension.name) # 0
                THEN DimAlias(dimensions[IndexOfName(dimensions, ref.dimension.name)])
                ELSE ref.dimension.name)
            \o <<".">> \o ref.dimension.attributes[InlineIndex(ref)].name)
    ELSE IF IndexOfName(dimensions, ref.dimension.name) = 0
    THEN Throw("DimensionNotFound", <<>>)
    ELSE AliasInDimension(dimensions[IndexOfName(dimensions, ref.dimension.name)], ref)

attributeAliasInlineBug(dimensions, ref) ==
    IF InlineIndex(ref) # 0
    THEN Ok(QualifierPrefix(ref) \o ref.dimension.name \o <<".">>
            \o ref.dimension.attributes[InlineIndex(ref)].name)
    ELSE IF IndexOfName(dimensions, ref.dimension.name) = 0
    THEN Throw(IF ref.dimension.hasAttributes THEN "AttributeNotFound"
               ELSE "DimensionNotFound", <<>>)
    ELSE AliasInDimension(dimensions[IndexOfName(dimensions, ref.dimension.name)], ref)

\* utils.ts:192-221
attributeAlias(dimensions, ref) ==
    IF InlineIndex(ref) # 0
    THEN Ok(QualifierPrefix(ref) \o ref.dimension.name \o <<".">>
            \o ref.dimension.attributes[InlineIndex(ref)].name)
    ELSE IF IndexOfName(dimensions, ref.dimension.name) = 0
    THEN Throw("DimensionNotFound", <<>>)
    ELSE AliasInDimension(dimensions[IndexOfName(dimensions, ref.dimension.name)], ref)

\* utils.ts:240, [def, v]: def = FALSE is undefined
AttributeInDimension(dimension, ref) ==
    IF IndexOfName(dimension.attributes, ref.attribute) = 0
    THEN [def |-> FALSE, v |-> NoAttribute]
    ELSE [def |-> TRUE,
          v |-> dimension.attributes[IndexOfName(dimension.attributes, ref.attribute)]]

getAttributeBug(dimensions, ref) ==
    IF IndexOfName(dimensions, ref.dimension.name) # 0
       /\ AttributeInDimension(dimensions[IndexOfName(dimensions, ref.dimension.name)],
                               ref).def
    THEN AttributeInDimension(dimensions[IndexOfName(dimensions, ref.dimension.name)], ref)
    ELSE IF InlineIndex(ref) # 0
    THEN [def |-> TRUE, v |-> ref.dimension.attributes[InlineIndex(ref)]]
    ELSE [def |-> FALSE, v |-> NoAttribute]

getAttribute(dimensions, ref) ==
    IF InlineIndex(ref) # 0
    THEN [def |-> TRUE, v |-> ref.dimension.attributes[InlineIndex(ref)]]
    ELSE IF IndexOfName(dimensions, ref.dimension.name) = 0
    THEN [def |-> FALSE, v |-> NoAttribute]
    ELSE AttributeInDimension(dimensions[IndexOfName(dimensions, ref.dimension.name)], ref)

-----------------------------------------------------------------------------
(* Value formatting *)

DateThreshold == 100000
MsPerDay == 86400000

\* The UTC calendar date of a day count since 1970-01-01 (what Date's
\* getUTCFullYear / getUTCMonth + 1 / getUTCDate return), proleptic Gregorian.
CivilFromDays(days) ==
    LET z == days + 719468
        era == z \div 146097
        doe == z - era * 146097
        yoe == (doe - doe \div 1460 + doe \div 36524 - doe \div 146096) \div 365
        doy == doe - (365 * yoe + yoe \div 4 - yoe \div 100)
        mp == (5 * doy + 2) \div 153
        d == doy - (153 * mp + 2) \div 5 + 1
        m == IF mp < 10 THEN mp + 3 ELSE mp - 9
        y == yoe + era * 400 + (IF m <= 2 THEN 1 ELSE 0)
    IN  [year |-> y, month |-> m, day |-> d]

\* The day count new Date(milliseconds) falls in.  The product
\* value * 86400000 of the day branch is kept as its day count.
DateDays(value) ==
    IF value > DateThreshold THEN value \div MsPerDay ELSE value

formatDate(value) ==
    LET c == CivilFromDays(DateDays(value))
    IN  NumToStr(c.year) \o <<"-">> \o Pad2(c.month) \o <<"-">> \o Pad2(c.day)

MonthShort ==
    << <<"J", "a", "n">>, <<"F", "e", "b">>, <<"M", "a", "r">>, <<"A", "p", "r">>,
       <<"M", "a", "y">>, <<"J", "u", "n">>, <<"J", "u", "l">>, <<"A", "u", "g">>,
       <<"S", "e", "p">>, <<"O", "c", "t">>, <<"N", "o", "v">>, <<"D", "e", "c">> >>

\* Date.prototype.toLocaleString('en-US', {year: 'numeric', month: 'short',
\* day: 'numeric', hour: '2-digit', minute: '2-digit'}) of value / 1000 ms,
\* for a host whose time zone is UTC.
formatTimestamp(value) ==
    LET minutes == value \div 60000000
        c == CivilFromDays(minutes \div 1440)
        h24 == (minutes % 1440) \div 60
        mi == minutes % 60
        h12 == IF h24 % 12 = 0 THEN 12 ELSE h24 % 12
    IN  MonthShort[c.month] \o <<" ">> \o NumToStr(c.day) \o <<",", " ">>
        \o NumToStr(c.year) \o <<",", " ">> \o Pad2(h12) \o <<":">> \o Pad2(mi)
        \o <<" ">> \o (IF h24 < 12 THEN <<"A", "M">> ELSE <<"P", "M">>)

TypeDate == <<"d", "a", "t", "e">>
TypeTimestamp == <<"t", "i", "m", "e", "s", "t", "a", "m", "p">>
TypeString == <<"s", "t", "r", "i", "n", "g">>
TypeI32 == <<"i", "3", "2">>

FormatTypedBug(value, attrType, numValue) == TemplateStr(value)

\* utils.ts:253-270 on attrType and the number read from the value
FormatTyped(value, attrType, numValue) ==
    IF attrType = TypeDate /\ numValue.t = "number" THEN formatDate(numValue.n)
    ELSE IF attrType = TypeTimestamp /\ numValue.t = "number"
    THEN formatTimestamp(numValue.n)
    ELSE TemplateStr(value)

\* attr is getAttribute's [def, v] result; attribute?.type?.toLowerCase() of
\* an undefined attribute or type is undefined (here the empty string).
formatAttributeValue(value, attr) ==
    IF value.t \in {"null", "undefined"} THEN <<>>
    ELSE FormatTyped(value,
                     IF attr.def /\ attr.v.hasType THEN ToLowerCase(attr.v.type) ELSE <<>>,
                     IF value.t = "string" THEN ParseNumber(value.s) ELSE value)

-----------------------------------------------------------------------------
(* RowData: an object whose string keys keep insertion order.  A property  *)
(* is [key, isArr, str, arr]: a formatted string or a metric array.        *)

StrProp(k, s) == [key |-> k, isArr |-> FALSE, str |-> s, arr |-> <<>>]
ArrProp(k, a) == [key |-> k, isArr |-> TRUE, str |-> <<>>, arr |-> a]

\* Index of the property named k, 0 when obj[k] is undefined.
RECURSIVE KeyIndexFrom(_, _, _)
KeyIndexFrom(seq, k, i) ==
    IF i > Len(seq) THEN 0
    ELSE IF seq[i].key = k THEN i
    ELSE KeyIndexFrom(seq, k, i + 1)

PropIndex(obj, k) == KeyIndexFrom(obj, k, 1)

\* obj[k] = value: overwrite in place, or add as the last property.
SetProp(obj, p) ==
    LET i == PropIndex(obj, p.key)
    IN  IF i = 0 THEN Append(obj, p) ELSE [obj EXCEPT ![i] = p]

MetricsKey == <<"m", "e", "t", "r", "i", "c", "s">>

\* Index of the Map entry with this key, 0 when resultMap.get(key) is undefined.
MapIndex(rm, k) == KeyIndexFrom(rm, k, 1)

\* resultMap.set(rowKey, resultRow) for a key not yet present.
MapSetNewBug(rm, k, obj) == <<[key |-> k, row |-> obj]>> \o rm

MapSetNew(rm, k, obj) == Append(rm, [key |-> k, row |-> obj])

-----------------------------------------------------------------------------
(* pivot: the data.map callback *)

NoResolved == [ref |-> NoRef, alias |-> <<>>]

\* attributeAlias on the reference getAttributeRef returned; val is [ref, alias].
AliasOfRefBug(r, m, path) ==
    IF r.ok /\ attributeAlias(ModelDimensions(m), r.val).ok
    THEN Ok([ref |-> r.val, alias |-> attributeAlias(ModelDimensions(m), r.val).val])
    ELSE Ok([ref |-> NoRef, alias |-> path])

AliasOfRef(r, m, path) ==
    IF ~r.ok THEN Throw(r.err, NoResolved)
    ELSE IF ~attributeAlias(ModelDimensions(m), r.val).ok
    THEN Throw(attributeAlias(ModelDimensions(m), r.val).err, NoResolved)
    ELSE Ok([ref |-> r.val, alias |-> attributeAlias(ModelDimensions(m), r.val).val])

\* getAttributeRef followed by attributeAlias, as each rows.map / columns.map
\* callback starts (utils.ts:51-52, 65-66, 87-88, 119-120).
ResolveAlias(path, m) == AliasOfRef(getAttributeRef(path, m), m, path)

FirstOf(e, rest) == IF e # "none" THEN e ELSE rest

\* The error of the first path of the list whose callback throws, "none" if
\* none does.
RECURSIVE PathsError(_, _)
PathsError(paths, m) ==
    IF paths = <<>> THEN "none"
    ELSE FirstOf(ResolveAlias(paths[1], m).err, PathsError(Tail(paths), m))

RowKeyPartBug(row, attAlias) ==
    attAlias \o <<":">>
    \o (IF RowGet(row, attAlias).t \in {"null", "undefined"} THEN <<>>
        ELSE TemplateStr(RowGet(row, attAlias)))

\* `${attAlias}:${row[attAlias]}`
RowKeyPart(row, attAlias) == attAlias \o <<":">> \o TemplateStr(RowGet(row, attAlias))

RowKeyOfBug(row, rows, m) ==
    IF rows = <<>> THEN <<>>
    ELSE RowKeyPart(row, ResolveAlias(rows[1], m).val.alias)

\* utils.ts:49-54
RowKeyOf(row, rows, m) ==
    Join([i \in DOMAIN rows |-> RowKeyPart(row, ResolveAlias(rows[i], m).val.alias)],
         <<",">>)

\* formatAttributeValue(row[attAlias], getAttribute(dimensions, attRef))
FormatResolved(row, r, m) ==
    formatAttributeValue(RowGet(row, r.alias), getAttribute(ModelDimensions(m), r.ref))

\* The formatted value stored for one row or column path.
FormattedValue(row, path, m) == FormatResolved(row, ResolveAlias(path, m).val, m)

RowField(row, r, m) == StrProp(r.alias, FormatResolved(row, r, m))

\* utils.ts:64-70, the row attribute fields of a freshly created resultRow
RECURSIVE SetRowFields(_, _, _, _)
SetRowFields(obj, row, rows, m) ==
    IF rows = <<>> THEN obj
    ELSE SetRowFields(SetProp(obj, RowField(row, ResolveAlias(rows[1], m).val, m)),
                      row, Tail(rows), m)

ColumnKeyPartBug(row, r, m) == r.alias \o <<":">> \o TemplateStr(RowGet(row, r.alias))

\* attAlias + ":" + formattedValue
ColumnKeyPart(row, r, m) == r.alias \o <<":">> \o FormatResolved(row, r, m)

\* utils.ts:86-93
ColumnKeyOf(row, columns, m) ==
    Join([i \in DOMAIN columns |-> ColumnKeyPart(row, ResolveAlias(columns[i], m).val, m)],
         <<"|">>)

\* parseFloat(row[m].toString()): Number -> string -> number.
ParseFloatOf(v) == ParseNumber(TemplateStr(v))

\* utils.ts:80, the rule without column paths.  undefined.toString() throws.
MetricValueNoColumns(v) ==
    IF v.t = "null" THEN Ok(Null)
    ELSE IF v.t = "undefined" THEN Throw("TypeError", Null)
    ELSE Ok(ParseFloatOf(v))

\* utils.ts:102, the rule with column paths.
MetricValueColumns(v) == IF Truthy(v) THEN ParseFloatOf(v) ELSE Null

PushMetricsBug(arr, values) == values

PushMetricsReversedBug(arr, values) ==
    arr \o [i \in DOMAIN values |-> values[Len(values) - i + 1]]

PushMetricsPrependBug(arr, values) == values \o arr

\* metrics.map(m => metricsArr.push(value)) on the array already stored.
PushMetrics(arr, values) == arr \o values

\* utils.ts:57-71, resultMap after the get-or-create of the row's entry
GetOrCreate(rm, rowKey, row, q, m) ==
    IF MapIndex(rm, rowKey) = 0
    THEN MapSetNew(rm, rowKey, SetRowFields(<<>>, row, q.rows, m))
    ELSE rm

\* resultRow[key] as a metric array: [] when undefined (or an empty string).
StoredArray(resultRow, key) ==
    IF PropIndex(resultRow, key) = 0 \/ ~resultRow[PropIndex(resultRow, key)].isArr
    THEN <<>>
    ELSE resultRow[PropIndex(resultRow, key)].arr

\* A non-empty string stored under the key: truthy, but without push.
StoredString(resultRow, key) ==
    /\ PropIndex(resultRow, key) # 0
    /\ ~resultRow[PropIndex(resultRow, key)].isArr
    /\ resultRow[PropIndex(resultRow, key)].str # <<>>

\* utils.ts:73-84, on the map rm with the row's entry at index at
AddNoColumns(row, q, rm, at, ca) ==
    IF \E i \in DOMAIN q.metrics : ~MetricValueNoColumns(RowGet(row, q.metrics[i])).ok
    THEN Throw("TypeError", [rm |-> rm, ca |-> ca])
    ELSE Ok([rm |-> [rm EXCEPT ![at].row =
                        SetProp(rm[at].row,
                                ArrProp(MetricsKey,
                                        PushMetrics(StoredArray(rm[at].row, MetricsKey),
                                            [i \in DOMAIN q.metrics |->
                                                MetricValueNoColumns(
                                                    RowGet(row, q.metrics[i])).val])))],
             ca |-> ca])

\* utils.ts:95-109, on the map rm with the row's entry at index at
AddColumns(row, q, rm, at, columnKey, ca) ==
    IF StoredString(rm[at].row, columnKey)
    THEN IF q.metrics # <<>> THEN Throw("TypeError", [rm |-> rm, ca |-> ca])
         ELSE Ok([rm |-> rm, ca |-> Append(ca, columnKey)])
    ELSE Ok([rm |-> [rm EXCEPT ![at].row =
                        SetProp(rm[at].row,
                                ArrProp(columnKey,
                                        PushMetrics(StoredArray(rm[at].row, columnKey),
                                            [i \in DOMAIN q.metrics |->
                                                MetricValueColumns(
                                                    RowGet(row, q.metrics[i]))])))],
             ca |-> Append(ca, columnKey)])

\* utils.ts:73-109, after the row's entry exists in rm
AddMetrics(row, q, m, rm, rowKey, ca) ==
    IF Len(q.columns) = 0 THEN AddNoColumns(row, q, rm, MapIndex(rm, rowKey), ca)
    ELSE IF PathsError(q.columns, m) # "none"
    THEN Throw(PathsError(q.columns, m), [rm |-> rm, ca |-> ca])
    ELSE AddColumns(row, q, rm, MapIndex(rm, rowKey), ColumnKeyOf(row, q.columns, m), ca)

\* utils.ts:57-109, once the row key is computed
ProcessKeyed(row, q, m, rm, rowKey, ca) ==
    AddMetrics(row, q, m, GetOrCreate(rm, rowKey, row, q, m), rowKey, ca)

\* Outcome of the callback on one raw row: [ok, err, val = [rm, ca]].
ProcessRow(row, q, m, rm, ca) ==
    IF PathsError(q.rows, m) # "none"
    THEN Throw(PathsError(q.rows, m), [rm |-> rm, ca |-> ca])
    ELSE ProcessKeyed(row, q, m, rm, RowKeyOf(row, q.rows, m), ca)

-----------------------------------------------------------------------------
(* pivot: densification *)

\* columnArr.filter((v, i, a) => a.indexOf(v) === i).sort()
ColumnSetBug(ca) == Dedupe(ca)

ColumnSet(ca) == SortStrings(Dedupe(ca))

\* new Array(metrics.length).fill(null)
NullFill(metrics) == [i \in DOMAIN metrics |-> Null]

\* utils.ts:118-122
RECURSIVE CopyRowFields(_, _, _, _)
CopyRowFields(dense, obj, rows, m) ==
    IF rows = <<>> THEN dense
    ELSE CopyRowFields(
             SetProp(dense, obj[PropIndex(obj, ResolveAlias(rows[1], m).val.alias)]),
             obj, Tail(rows), m)

\* row[col] is truthy: an array, or a non-empty string
Present(obj, col) ==
    /\ PropIndex(obj, col) # 0
    /\ (obj[PropIndex(obj, col)].isArr \/ obj[PropIndex(obj, col)].str # <<>>)

\* utils.ts:127-133
RECURSIVE FillColumns(_, _, _, _)
FillColumns(dense, obj, columnSet, metrics) ==
    IF columnSet = <<>> THEN dense
    ELSE FillColumns(SetProp(dense, IF Present(obj, columnSet[1])
                                    THEN obj[PropIndex(obj, columnSet[1])]
                                    ELSE ArrProp(columnSet[1], NullFill(metrics))),
                     obj, Tail(columnSet), metrics)

CopyMetricsBug(labels, obj, columnSet) == labels

\* utils.ts:124-126
CopyMetrics(labels, obj, columnSet) ==
    IF Len(columnSet) = 0 THEN SetProp(labels, obj[PropIndex(obj, MetricsKey)])
    ELSE labels

DenseRow(obj, q, m, columnSet) ==
    FillColumns(CopyMetrics(CopyRowFields(<<>>, obj, q.rows, m), obj, columnSet),
                obj, columnSet, q.metrics)

DenseRowsBug(rm, q, m, ca) ==
    IF rm = <<>> THEN << <<ArrProp(MetricsKey, <<>>)>> >>
    ELSE [i \in DOMAIN rm |-> DenseRow(rm[i].row, q, m, ColumnSet(ca))]

DenseRows(rm, q, m, ca) ==
    [i \in DOMAIN rm |-> DenseRow(rm[i].row, q, m, ColumnSet(ca))]

-----------------------------------------------------------------------------
(* Inputs of the checked pivot calls: the README's sales example *)

geography == <<"g", "e", "o", "g", "r", "a", "p", "h", "y">>
country == <<"c", "o", "u", "n", "t", "r", "y">>
dates == <<"d", "a", "t", "e", "s">>
year == <<"y", "e", "a", "r">>
day == <<"d", "a", "y">>
channel == <<"c", "h", "a", "n", "n", "e", "l">>
name == <<"n", "a", "m", "e">>
orders == <<"o", "r", "d", "e", "r", "s">>
adwords == <<"a", "d", "w", "o", "r", "d", "s">>
sales == <<"s", "a", "l", "e", "s">>
stock == <<"s", "t", "o", "c", "k">>
revenue == <<"r", "e", "v", "e", "n", "u", "e">>
cost == <<"c", "o", "s", "t">>
USA == <<"U", "S", "A">>
UK == <<"U", "K">>

Attr(n, t) == [name |-> n, hasType |-> TRUE, type |-> t]
Dim(n, attrs) == [name |-> n, hasAlias |-> FALSE, alias |-> <<>>, attributes |-> attrs,
                  virtual |-> FALSE]
Joined(n) == [name |-> n, hasAttributes |-> FALSE, attributes |-> <<>>]
Degenerate(n, attrs) == [name |-> n, hasAttributes |-> TRUE, attributes |-> attrs]
Path(segs) == Join(segs, <<".">>)

SalesModel ==
    [name |-> sales, hasDimensions |-> TRUE,
     dimensions |-> << Dim(geography, <<Attr(country, TypeString)>>),
                       Dim(dates, <<Attr(year, TypeI32), Attr(day, TypeDate)>>) >>,
     datasetGroups |->
        << [name |-> orders,
            dimensions |-> << Joined(geography), Joined(dates),
                              Degenerate(channel, <<Attr(name, TypeString)>>) >>],
           [name |-> adwords,
            dimensions |-> << Joined(dates) >>] >>]

StockModel ==
    [name |-> stock, hasDimensions |-> FALSE, dimensions |-> <<>>, datasetGroups |-> <<>>]

TheSchema == [semantic_models |-> <<StockModel, SalesModel>>]

ModelNames == {sales, orders}

pCountry == Path(<<geography, country>>)
pYear == Path(<<dates, year>>)
pDay == Path(<<dates, day>>)
pChannel == Path(<<orders, channel, name>>)
pOneSegment == geography
pFourSegments == Path(<<orders, dates, year, year>>)
pNoGrouping == Path(<<stock, dates, year>>)
pNoDimension == Path(<<adwords, name>>)
pNoAttribute == Path(<<geography, year>>)

RowChoices == { <<>>, <<pCountry>>, <<pCountry, pYear>>, <<pOneSegment>>,
                <<pCountry, pNoAttribute>> }
ColumnChoices == { <<>>, <<pYear>>, <<pDay>>, <<pYear, pChannel>>, <<pFourSegments>>,
                   <<pYear, pNoGrouping>>, <<pNoDimension>> }
MetricChoices == { <<>>, <<revenue>>, <<revenue, cost>> }

Queries == [rows : RowChoices, columns : ColumnChoices, metrics : MetricChoices]

RawRows ==
    { (pCountry :> Str(USA)) @@ (pYear :> Num(2023)) @@ (revenue :> Num(50000)),
      (pCountry :> Str(USA)) @@ (pYear :> Num(2024)) @@ (pDay :> Num(19723))
          @@ (revenue :> Num(0)) @@ (cost :> Num(5)),
      (pCountry :> Str(UK)) @@ (pYear :> Str(<<"2", "0", "2", "3">>))
          @@ (pDay :> Num(1700000000)) @@ (pChannel :> Str(<<"a", "|", "b">>))
          @@ (revenue :> Str(<<"7">>)) @@ (cost :> Null),
      (pCountry :> Null) @@ (pYear :> Num(2023)) @@ (pDay :> Num(19723))
          @@ (cost :> Num(0)),
      (pCountry :> Str(<<>>)) @@ (pYear :> Num(2024)) @@ (pChannel :> Str(<<"a">>))
          @@ (revenue :> Num(62000)) @@ (cost :> Str(<<>>)) }

RECURSIVE SeqsUpTo(_, _)
SeqsUpTo(S, n) ==
    IF n = 0 THEN {<<>>}
    ELSE LET shorter == SeqsUpTo(S, n - 1)
         IN  shorter \cup {Append(q, x) : q \in shorter, x \in S}

NoModel == [name |-> <<>>, hasDimensions |-> FALSE, dimensions |-> <<>>,
            datasetGroups |-> <<>>]

-----------------------------------------------------------------------------
(* The pivot call *)

\* No earlier call on the same arguments.
NoCall == [made |-> FALSE, pc |-> "start", result |-> <<>>, err |-> "none"]
NoCalls == [made |-> FALSE, ref |-> Throw("none", NoRef), alias |-> Throw("none", <<>>),
            attr |-> NoAttributeFound]

UtilIdle ==
    /\ uCall = [fn |-> "none", model |-> NoModel, segs |-> <<>>, paths |-> <<>>]
    /\ uPc = "idle"
    /\ uRet = FALSE

ResolverIdle ==
    /\ rModel = NoModel
    /\ rSegs = <<>>
    /\ rPath = <<>>
    /\ rPc = "idle"
    /\ rRef = Throw("none", NoRef)
    /\ rAlias = Throw("none", <<>>)
    /\ rAttr = NoAttributeFound
    /\ rPrior = NoCalls

Init ==
    /\ schema = TheSchema
    /\ modelName \in ModelNames
    /\ query \in Queries
    /\ data \in SeqsUpTo(RawRows, MaxRows)
    /\ pc = "start"
    /\ model = NoModel
    /\ idx = 0
    /\ resultMap = <<>>
    /\ columnArr = <<>>
    /\ result = <<>>
    /\ err = "none"
    /\ prior = NoCall
    /\ ResolverIdle
    /\ UtilIdle

NewMapBug == resultMap

\* new Map() at utils.ts:40
NewMap == <<>>

ModelIndexBug(sch, n) ==
    IF IndexOfName(sch.semantic_models, n) = 0 THEN 1
    ELSE IndexOfName(sch.semantic_models, n)

\* schema.semantic_models.find(m => m.name === modelName), 0 when undefined
ModelIndex(sch, n) == IndexOfName(sch.semantic_models, n)

\* utils.ts:33-45
FindModel ==
    /\ pc = "start"
    /\ LET i == ModelIndex(schema, modelName)
       IN  IF i = 0
           THEN /\ pc' = "error"
                /\ err' = "ModelNotFound"
                /\ UNCHANGED <<model, resultMap, columnArr>>
           ELSE /\ pc' = "rows"
                /\ model' = schema.semantic_models[i]
                /\ resultMap' = NewMap
                /\ columnArr' = <<>>
                /\ err' = err
    /\ UNCHANGED <<schema, modelName, query, data, idx, result, prior>>
    /\ UNCHANGED resolverVars
    /\ UNCHANGED utilVars

\* utils.ts:47-110, one invocation of the data.map callback
MapRow ==
    /\ pc = "rows"
    /\ idx < Len(data)
    /\ LET r == ProcessRow(data[idx + 1], query, model, resultMap, columnArr)
       IN  IF r.ok
           THEN /\ resultMap' = r.val.rm
                /\ columnArr' = r.val.ca
                /\ idx' = idx + 1
                /\ UNCHANGED <<pc, err>>
           ELSE /\ pc' = "error"
                /\ err' = r.err
                /\ UNCHANGED <<resultMap, columnArr, idx>>
    /\ UNCHANGED <<schema, modelName, query, data, model, result, prior>>
    /\ UNCHANGED resolverVars
    /\ UNCHANGED utilVars

\* utils.ts:112-136
Densify ==
    /\ pc = "rows"
    /\ idx = Len(data)
    /\ result' = DenseRows(resultMap, query, model, columnArr)
    /\ pc' = "done"
    /\ UNCHANGED <<schema, modelName, query, data, model, idx, resultMap, columnArr, err,
                   prior>>
    /\ UNCHANGED resolverVars
    /\ UNCHANGED utilVars

Next == FindModel \/ MapRow \/ Densify

Spec == Init /\ [][Next]_vars

-----------------------------------------------------------------------------
(* The resolver calls: getAttributeRef, then attributeAlias on its result  *)

MaxSegments == 4

\* Segment vocabulary: two grouping names, two dimension names, an attribute
\* name and the empty segment.
Segments == { <<"g">>, <<"h">>, <<"d">>, <<"e">>, <<"a">>, <<>> }

SegmentLists == {q \in SeqsUpTo(Segments, MaxSegments) : Len(q) >= 1}

AttrA == [name |-> <<"a">>, hasType |-> FALSE, type |-> <<>>]
AttrADate == Attr(<<"a">>, TypeDate)
AttrE == [name |-> <<"e">>, hasType |-> FALSE, type |-> <<>>]

ResolverModels ==
    { \* d joined in g and degenerate in h (without the model-level
      \* attribute e); e degenerate in g only
      [name |-> <<"m">>, hasDimensions |-> TRUE,
       dimensions |-> << Dim(<<"d">>, <<AttrADate, AttrE>>) >>,
       datasetGroups |->
          << [name |-> <<"g">>,
              dimensions |-> << Joined(<<"d">>), Degenerate(<<"e">>, <<AttrA>>) >>],
             [name |-> <<"h">>, dimensions |-> << Degenerate(<<"d">>, <<AttrA>>) >>] >>],
      \* d only at model level (virtual, with a display alias); e joined without definition
      [name |-> <<"m">>, hasDimensions |-> TRUE,
       dimensions |-> << [name |-> <<"d">>, hasAlias |-> TRUE, alias |-> <<"h">>,
                          attributes |-> <<AttrA>>, virtual |-> TRUE] >>,
       datasetGroups |->
          << [name |-> <<"g">>, dimensions |-> << Joined(<<"e">>) >>],
             [name |-> <<"h">>, dimensions |-> <<>>] >>],
      \* no model-level list; g declared twice
      [name |-> <<"m">>, hasDimensions |-> FALSE, dimensions |-> <<>>,
       datasetGroups |->
          << [name |-> <<"g">>, dimensions |-> << Degenerate(<<"e">>, <<AttrA>>) >>],
             [name |-> <<"g">>, dimensions |-> << Degenerate(<<"d">>, <<AttrA>>) >>] >>],
      \* e joined in g, defined at model level with a display alias
      [name |-> <<"m">>, hasDimensions |-> TRUE,
       dimensions |-> << [name |-> <<"e">>, hasAlias |-> TRUE, alias |-> <<"x">>,
                          attributes |-> <<AttrA>>, virtual |-> FALSE] >>,
       datasetGroups |->
          << [name |-> <<"g">>,
              dimensions |-> << Joined(<<"e">>), Degenerate(<<"d">>, <<AttrA>>) >>] >>],
      SalesModel }

PivotIdle ==
    /\ schema = TheSchema
    /\ modelName = <<>>
    /\ query = [rows |-> <<>>, columns |-> <<>>, metrics |-> <<>>]
    /\ data = <<>>
    /\ pc = "idle"
    /\ model = NoModel
    /\ idx = 0
    /\ resultMap = <<>>
    /\ columnArr = <<>>
    /\ result = <<>>
    /\ err = "none"
    /\ prior = NoCall

InitResolve ==
    /\ PivotIdle
    /\ rModel \in ResolverModels
    /\ rSegs \in SegmentLists
    /\ rPath = Path(rSegs)
    /\ rPc = "call"
    /\ rRef = Throw("none", NoRef)
    /\ rAlias = Throw("none", <<>>)
    /\ rAttr = NoAttributeFound
    /\ rPrior = NoCalls
    /\ UtilIdle

\* utils.ts:140-190
CallGetAttributeRef ==
    /\ rPc = "call"
    /\ rRef' = getAttributeRef(rPath, rModel)
    /\ rPc' = IF rRef'.ok THEN "ref" ELSE "error"
    /\ UNCHANGED <<rModel, rSegs, rPath, rAlias, rAttr, rPrior>>
    /\ UNCHANGED pivotVars
    /\ UNCHANGED utilVars

\* utils.ts:192-221, on the reference getAttributeRef returned (as at utils.ts:51-52)
CallAttributeAlias ==
    /\ rPc = "ref"
    /\ rAlias' = attributeAlias(ModelDimensions(rModel), rRef.val)
    /\ rPc' = IF rAlias'.ok THEN "alias" ELSE "error"
    /\ UNCHANGED <<rModel, rSegs, rPath, rRef, rAttr, rPrior>>
    /\ UNCHANGED pivotVars
    /\ UNCHANGED utilVars

\* utils.ts:226-241, on the same reference once its alias is derived (as at
\* utils.ts:66-68 and 88-90)
CallGetAttribute ==
    /\ rPc = "alias"
    /\ rAttr' = getAttribute(ModelDimensions(rModel), rRef.val)
    /\ rPc' = "attr"
    /\ UNCHANGED <<rModel, rSegs, rPath, rRef, rAlias, rPrior>>
    /\ UNCHANGED pivotVars
    /\ UNCHANGED utilVars

NextResolve == CallGetAttributeRef \/ CallAttributeAlias \/ CallGetAttribute

SpecResolve == InitResolve /\ [][NextResolve]_vars

-----------------------------------------------------------------------------
(* Both kinds of call: a pivot call, or a resolver call sequence *)

InitCalls == Init \/ InitResolve

NextCalls ==
    \/ FindModel
    \/ MapRow
    \/ Densify
    \/ CallGetAttributeRef
    \/ CallAttributeAlias
    \/ CallGetAttribute

SpecCalls == InitCalls /\ [][NextCalls]_vars

-----------------------------------------------------------------------------
(* The same call made a second time on the same arguments *)

\* A second pivot(data, schema, modelName, query) once the first has
\* returned or thrown; the locals of the first call are gone.
PivotAgain ==
    /\ ~prior.made
    /\ pc \in {"done", "error"}
    /\ prior' = [made |-> TRUE, pc |-> pc, result |-> result, err |-> err]
    /\ pc' = "start"
    /\ model' = NoModel
    /\ idx' = 0
    /\ result' = <<>>
    /\ err' = "none"
    /\ UNCHANGED <<schema, modelName, query, data, resultMap, columnArr>>
    /\ UNCHANGED resolverVars
    /\ UNCHANGED utilVars

\* getAttributeRef, attributeAlias and getAttribute once more on the same
\* path and model.
ResolveAgain ==
    /\ ~rPrior.made
    /\ rPc \in {"attr", "error"}
    /\ rPrior' = [made |-> TRUE, ref |-> rRef, alias |-> rAlias, attr |-> rAttr]
    /\ rPc' = "call"
    /\ rRef' = Throw("none", NoRef)
    /\ rAlias' = Throw("none", <<>>)
    /\ rAttr' = NoAttributeFound
    /\ UNCHANGED <<rModel, rSegs, rPath>>
    /\ UNCHANGED pivotVars
    /\ UNCHANGED utilVars

NextRepeat ==
    \/ FindModel
    \/ MapRow
    \/ Densify
    \/ PivotAgain
    \/ CallGetAttributeRef
    \/ CallAttributeAlias
    \/ CallGetAttribute
    \/ ResolveAgain

SpecRepeat == InitCalls /\ [][NextRepeat]_vars

-----------------------------------------------------------------------------
(* Conformed dimension utilities *)

\* utils.ts:470-473
isConformed(m, dimName, attrName) == IndexOfName(ModelDimensions(m), dimName) # 0

\* utils.ts:514-530, the every() callback on parts = dimAttr.split('.')
PartsConformed(m, parts) ==
    IF Len(parts) = 3 THEN FALSE
    ELSE IF Len(parts) # 2 THEN FALSE
    ELSE isConformed(m, parts[1], parts[2])

isConformedQueryBug(m, dimensionAttrs) ==
    \A i \in DOMAIN dimensionAttrs : PartsConformed(m, Split(dimensionAttrs[i], "."))

\* utils.ts:509-531
isConformedQuery(m, dimensionAttrs) ==
    IF Len(dimensionAttrs) = 0 THEN FALSE
    ELSE \A i \in DOMAIN dimensionAttrs : PartsConformed(m, Split(dimensionAttrs[i], "."))

MaxPaths == 2

\* The segment lists the paths of a utility call are written from.
UtilSegments ==
    { << <<"d">>, <<"a">> >>, << <<"e">>, <<"a">> >>, << <<"d">>, <<"z">> >>,
      << <<"g">>, <<"d">>, <<"a">> >>, << <<"d">> >>, << <<"h">>, <<"a">> >>,
      << <<"d">>, <<"a">>, <<"a">>, <<"a">> >>, << <<>>, <<"a">> >>,
      << <<"d">>, <<>> >>, <<geography, country>> }

InitConformed ==
    /\ PivotIdle
    /\ ResolverIdle
    /\ \E m \in ResolverModels : \E segs \in SeqsUpTo(UtilSegments, MaxPaths) :
           uCall = [fn |-> "isConformedQuery", model |-> m, segs |-> segs,
                    paths |-> [i \in DOMAIN segs |-> Path(segs[i])]]
    /\ uPc = "call"
    /\ uRet = FALSE

CallIsConformedQuery ==
    /\ uPc = "call"
    /\ uCall.fn = "isConformedQuery"
    /\ uRet' = isConformedQuery(uCall.model, uCall.paths)
    /\ uPc' = "done"
    /\ UNCHANGED uCall
    /\ UNCHANGED pivotVars
    /\ UNCHANGED resolverVars

NextConformed == CallIsConformedQuery

SpecConformed == InitConformed /\ [][NextConformed]_vars

-----------------------------------------------------------------------------
(* Vocabulary of the properties *)

HasColumns == Len(query.columns) > 0
MetricCount == Len(query.metrics)

\* The row-key and the column-key of every raw row, in encounter order.
RowKeys == [i \in DOMAIN data |-> RowKeyOf(data[i], query.rows, model)]

ExpectedColumnKey(row) ==
    Join([c \in DOMAIN query.columns |->
             LET ref == getAttributeRef(query.columns[c], model).val
                 alias == attributeAlias(ModelDimensions(model), ref).val
             IN  alias \o <<":">>
                 \o formatAttributeValue(RowGet(row, alias),
                                         getAttribute(ModelDimensions(model), ref))],
         <<"|">>)

\* The key a raw row's metrics go under: its column-key, or "metrics".
MetricKeys ==
    [i \in DOMAIN data |-> IF HasColumns THEN ExpectedColumnKey(data[i]) ELSE MetricsKey]

\* The distinct row-keys in first-seen order.
DistinctRowKeys == Dedupe(RowKeys)

\* The parsed metric values one raw row contributes.
Contribution(row) ==
    [j \in DOMAIN query.metrics |->
        IF HasColumns THEN MetricValueColumns(RowGet(row, query.metrics[j]))
        ELSE MetricValueNoColumns(RowGet(row, query.metrics[j])).val]

\* The raw rows, in encounter order, with row-key rk and metric key k.
RECURSIVE ContributorsUpTo(_, _, _)
ContributorsUpTo(n, rk, k) ==
    IF n = 0 THEN <<>>
    ELSE IF RowKeys[n] = rk /\ MetricKeys[n] = k
    THEN Append(ContributorsUpTo(n - 1, rk, k), n)
    ELSE ContributorsUpTo(n - 1, rk, k)

Contributors(rk, k) == ContributorsUpTo(Len(data), rk, k)

\* The same on the row-keys rks and metric keys mks of the raw rows, given
\* as sequences: the indices up to n, in order, with row-key rk and key k.
RECURSIVE ContributorsIn(_, _, _, _, _)
ContributorsIn(rks, mks, n, rk, k) ==
    IF n = 0 THEN <<>>
    ELSE IF rks[n] = rk /\ mks[n] = k
    THEN Append(ContributorsIn(rks, mks, n - 1, rk, k), n)
    ELSE ContributorsIn(rks, mks, n - 1, rk, k)

\* A sequence given as a function, as the tuple of its values.
AsTuple(f) == f \o <<>>

RECURSIVE ConcatContributions(_)
ConcatContributions(is) ==
    IF is = <<>> THEN <<>>
    ELSE Contribution(data[is[1]]) \o ConcatContributions(Tail(is))

\* The keys of an output row that hold metric sequences, in the row's key order.
RECURSIVE ArrayKeys(_)
ArrayKeys(obj) ==
    IF obj = <<>> THEN <<>>
    ELSE IF obj[1].isArr THEN <<obj[1].key>> \o ArrayKeys(Tail(obj))
    ELSE ArrayKeys(Tail(obj))

\* The row-dimension fields of an output row.
RECURSIVE StringProps(_)
StringProps(obj) ==
    IF obj = <<>> THEN <<>>
    ELSE IF ~obj[1].isArr THEN <<obj[1]>> \o StringProps(Tail(obj))
    ELSE StringProps(Tail(obj))

HasProp(obj, k) == PropIndex(obj, k) # 0
PropOf(obj, k) == obj[PropIndex(obj, k)]

StrictlySorted(keys) ==
    \A i \in 1..(Len(keys) - 1) : StrLess(keys[i], keys[i + 1])

ObservedColumnKeys == {MetricKeys[i] : i \in DOMAIN data}

ModelFound == \E i \in DOMAIN schema.semantic_models :
                  schema.semantic_models[i].name = modelName

-----------------------------------------------------------------------------
(* C1..C5: the pivot output *)

\* C1: with column paths requested, every output row exposes the same
\* column-keys, in sorted order without duplicates, they are exactly the
\* column-keys observed over all raw rows, and a row in which a column-key
\* was never observed holds a sequence of MetricCount nulls under it.
C1_Densification ==
    (pc = "done" /\ HasColumns) =>
        LET rks == AsTuple(RowKeys)
            mks == AsTuple(MetricKeys)
            distinct == Dedupe(rks)
            observed == {mks[i] : i \in DOMAIN mks}
        IN  \A r \in DOMAIN result :
                /\ StrictlySorted(ArrayKeys(result[r]))
                /\ {ArrayKeys(result[r])[i] : i \in DOMAIN ArrayKeys(result[r])}
                       = observed
                /\ \A k \in observed :
                       ContributorsIn(rks, mks, Len(data), distinct[r], k) = <<>> =>
                           /\ Len(PropOf(result[r], k).arr) = MetricCount
                           /\ \A j \in 1..MetricCount :
                                  PropOf(result[r], k).arr[j] = Null

C1_Witness ==
    /\ pc = "done"
    /\ HasColumns
    /\ MetricCount = 2
    /\ Len(result) = 2
    /\ Cardinality(ObservedColumnKeys) = 2
    /\ \E k \in ObservedColumnKeys :
           /\ PropOf(result[1], k).arr = <<Null, Null>>
           /\ Contributors(DistinctRowKeys[1], k) = <<>>
    /\ ~StrLess(MetricKeys[1], MetricKeys[2])

\* C2: a raw row whose metric value is the number 0 contributes the number 0
\* at its position of the output metric sequence, with and without column paths.
C2_ZeroPreserved ==
    pc = "done" =>
        \A i \in DOMAIN data : \A j \in DOMAIN query.metrics :
            RowGet(data[i], query.metrics[j]) = Num(0) =>
                LET r == CHOOSE x \in DOMAIN DistinctRowKeys :
                             DistinctRowKeys[x] = RowKeys[i]
                    before == ContributorsUpTo(i - 1, RowKeys[i], MetricKeys[i])
                IN  PropOf(result[r], MetricKeys[i]).arr[Len(before) * MetricCount + j]
                        = Num(0)

\* C3: with column paths requested, the metric values of each raw row are in
\* its output row under the key alias:formattedValue joined with '|' in
\* declared column order, next to the row-dimension alias fields; the README
\* example row gives {geography.country: "USA", "dates.year:2023": [50000]}.
C3_ColumnKey ==
    (pc = "done" /\ HasColumns) =>
        /\ LET rks == AsTuple(RowKeys)
               cks == AsTuple([i \in DOMAIN data |-> ExpectedColumnKey(data[i])])
               distinct == Dedupe(rks)
               aliases == AsTuple([p \in DOMAIN query.rows |->
                                      ResolveAlias(query.rows[p], model).val.alias])
           IN  \A i \in DOMAIN data :
                   LET r == CHOOSE x \in DOMAIN distinct : distinct[x] = rks[i]
                       k == cks[i]
                       before == ContributorsIn(rks, cks, i - 1, rks[i], k)
                   IN  /\ HasProp(result[r], k)
                       /\ PropOf(result[r], k).isArr
                       /\ SubSeq(PropOf(result[r], k).arr,
                                 Len(before) * MetricCount + 1,
                                 (Len(before) + 1) * MetricCount) = Contribution(data[i])
                       /\ \A p \in DOMAIN aliases :
                              /\ HasProp(result[r], aliases[p])
                              /\ ~PropOf(result[r], aliases[p]).isArr
        /\ ( /\ data = << (pCountry :> Str(USA)) @@ (pYear :> Num(2023))
                          @@ (revenue :> Num(50000)) >>
             /\ query = [rows |-> <<pCountry>>, columns |-> <<pYear>>,
                         metrics |-> <<revenue>>] )
           => result =
                << << StrProp(<<"g", "e", "o", "g", "r", "a", "p", "h", "y", ".",
                                "c", "o", "u", "n", "t", "r", "y">>, <<"U", "S", "A">>),
                      ArrProp(<<"d", "a", "t", "e", "s", ".", "y", "e", "a", "r", ":",
                                "2", "0", "2", "3">>, <<Num(50000)>>) >> >>

C3_Witness ==
    /\ pc = "done"
    /\ Len(query.columns) = 2
    /\ MetricCount = 1
    /\ \E i \in DOMAIN data :
           /\ RowGet(data[i], pChannel) = Str(<<"a", "|", "b">>)
           /\ HasProp(result[1], pYear \o <<":", "2", "0", "2", "3", "|">> \o pChannel
                                 \o <<":", "a", "|", "b">>)

\* The README call of C3 is among the calls explored.
C3_WitnessReadme ==
    /\ pc = "done"
    /\ data = << (pCountry :> Str(USA)) @@ (pYear :> Num(2023)) @@ (revenue :> Num(50000)) >>
    /\ query = [rows |-> <<pCountry>>, columns |-> <<pYear>>, metrics |-> <<revenue>>]

\* C4: raw rows sharing a row-key and a column-key (or a row-key, without
\* column paths) accumulate into one output row whose metric sequence is the
\* concatenation, in encounter order, of the values of each such raw row:
\* n rows and m metrics give n*m entries, none overwritten.
C4_Accumulation ==
    pc = "done" =>
        LET rks == AsTuple(RowKeys)
            mks == AsTuple(MetricKeys)
            distinct == Dedupe(rks)
        IN  \A r \in DOMAIN result : \A k \in {mks[i] : i \in DOMAIN mks} :
                LET is == ContributorsIn(rks, mks, Len(data), distinct[r], k)
                IN  is # <<>> =>
                        /\ PropOf(result[r], k).arr = ConcatContributions(is)
                        /\ Len(PropOf(result[r], k).arr) = Len(is) * MetricCount

C4_Witness ==
    /\ pc = "done"
    /\ MetricCount = 2
    /\ \E k \in ObservedColumnKeys :
           /\ Len(Contributors(DistinctRowKeys[1], k)) = 2
           /\ Len(PropOf(result[1], k).arr) = 4
           /\ PropOf(result[1], k).arr[1] # PropOf(result[1], k).arr[3]

\* C5: the output rows are in first-seen order of their row-keys, one per
\* distinct row-key; densification keeps the accumulated rows' number and order.
C5_FirstSeenOrder ==
    pc = "done" =>
        LET rowKeys == AsTuple(RowKeys)
            distinct == Dedupe(rowKeys)
        IN  /\ Len(result) = Len(distinct)
            /\ Len(result) = Len(resultMap)
            /\ \A r \in DOMAIN result :
                   LET first == CHOOSE i \in DOMAIN data :
                                    /\ rowKeys[i] = distinct[r]
                                    /\ \A j \in 1..(i - 1) : rowKeys[j] # distinct[r]
                   IN  /\ resultMap[r].key = distinct[r]
                       /\ StringProps(result[r]) = StringProps(resultMap[r].row)
                       /\ \A p \in DOMAIN query.rows :
                              PropOf(result[r],
                                     ResolveAlias(query.rows[p], model).val.alias).str
                                  = FormattedValue(data[first], query.rows[p], model)
            /\ \A r, s \in DOMAIN distinct :
                   r < s => \E i \in DOMAIN data :
                                /\ rowKeys[i] = distinct[r]
                                /\ \A j \in 1..i : rowKeys[j] # distinct[s]

C5_Witness ==
    /\ pc = "done"
    /\ Len(data) = 2
    /\ Len(result) = 2
    /\ Len(query.rows) = 2
    /\ StringProps(result[1]) # StringProps(result[2])

-----------------------------------------------------------------------------
(* C6, C7: failures and empty input *)

\* A path whose resolution or alias derivation fails in the call's model.
Unresolvable(path) ==
    LET r == getAttributeRef(path, model)
    IN  ~r.ok \/ ~attributeAlias(ModelDimensions(model), r.val).ok

ResolutionError(path) ==
    LET r == getAttributeRef(path, model)
    IN  IF ~r.ok THEN r.err ELSE attributeAlias(ModelDimensions(model), r.val).err

RequestedPaths == query.rows \o query.columns

FirstUnresolvable ==
    IF \E i \in DOMAIN RequestedPaths : Unresolvable(RequestedPaths[i])
    THEN CHOOSE i \in DOMAIN RequestedPaths :
             /\ Unresolvable(RequestedPaths[i])
             /\ \A j \in 1..(i - 1) : ~Unresolvable(RequestedPaths[j])
    ELSE 0

\* C6 as stated: for every raw-row collection, the empty one included, a
\* pivot call whose request has an unresolvable path ends in that path's
\* error and returns no output sequence.
C6_AnyDataFails ==
    (pc \in {"done", "error"} /\ ModelFound /\ FirstUnresolvable # 0) =>
        /\ pc = "error"
        /\ err = ResolutionError(RequestedPaths[FirstUnresolvable])

\* C6 amended: for every non-empty raw-row collection and a model found in
\* the schema, a pivot call whose request has an unresolvable path ends, in
\* the callback of the first raw row, in the error of the first such path
\* (row paths before column paths), and returns no output sequence.
C6_NonEmptyDataFails ==
    (pc \in {"rows", "done", "error"} /\ ModelFound /\ Len(data) > 0
     /\ FirstUnresolvable # 0) =>
        /\ pc # "done"
        /\ idx = 0
        /\ result = <<>>
        /\ pc = "error" => err = ResolutionError(RequestedPaths[FirstUnresolvable])

C6_Witness ==
    /\ pc = "error"
    /\ Len(data) = 2
    /\ query.rows = <<pCountry>>
    /\ query.columns = <<pYear, pNoGrouping>>
    /\ err = "GroupingNotFound"
    /\ FirstUnresolvable = 3

\* C7: on an empty raw-row collection a pivot call that found its model
\* returns the empty sequence, whatever the row paths, column paths and
\* metrics of the request are (resolvable or not).
C7_EmptyData ==
    (data = <<>> /\ pc \in {"done", "error"} /\ ModelFound) =>
        /\ pc = "done"
        /\ result = <<>>

C7_Witness ==
    /\ data = <<>>
    /\ pc = "done"
    /\ result = <<>>
    /\ query.rows = <<pOneSegment>>
    /\ query.columns = <<pFourSegments>>
    /\ MetricCount = 2

-----------------------------------------------------------------------------
(* C8..C10: getAttributeRef *)

Resolved == rPc # "call" /\ rPc # "idle"

\* The dataset groups of the resolver call's model that declare dimension dn.
GroupsDeclaring(dn) ==
    {g \in DOMAIN rModel.datasetGroups :
        \E j \in DOMAIN rModel.datasetGroups[g].dimensions :
            rModel.datasetGroups[g].dimensions[j].name = dn}

\* The first DimensionRef named dn of dataset group g.
FirstDimRef(g, dn) ==
    LET ds == rModel.datasetGroups[g].dimensions
    IN  ds[CHOOSE j \in DOMAIN ds :
               ds[j].name = dn /\ \A i \in 1..(j - 1) : ds[i].name # dn]

ModelLevelDefs(dn) ==
    {i \in DOMAIN ModelDimensions(rModel) : ModelDimensions(rModel)[i].name = dn}

Least(S) == CHOOSE x \in S : \A y \in S : x <= y

\* C8: a path is accepted only if it has exactly 2 or 3 segments; with any
\* other segment count it fails with InvalidPathFormat, whatever the model.
C8_SegmentCount ==
    Resolved =>
        /\ Len(rSegs) \notin {2, 3} => (~rRef.ok /\ rRef.err = "InvalidPathFormat")
        /\ rRef.ok => Len(rSegs) \in {2, 3}
        /\ Len(rSegs) \in {2, 3} => rRef.err # "InvalidPathFormat"

C8_Witness ==
    /\ rPc = "error"
    /\ Len(rSegs) = 4
    /\ rRef.err = "InvalidPathFormat"
    /\ rSegs = << <<"g">>, <<"d">>, <<"a">>, <<"a">> >>
    /\ GroupsDeclaring(<<"d">>) # {}

\* C9: a 2-segment path resolves to an unqualified reference to the
\* DimensionRef of the first dataset group, in declaration order, declaring
\* the dimension; when none declares it, to an unqualified reference carrying
\* the attributes of the model-level definition of that name; when there is
\* neither, it fails with DimensionNotFound.
C9_TwoSegments ==
    (Resolved /\ Len(rSegs) = 2) =>
        LET dn == rSegs[1]
            an == rSegs[2]
        IN  IF GroupsDeclaring(dn) # {}
            THEN /\ rRef.ok
                 /\ rRef.val = [dimension |-> FirstDimRef(Least(GroupsDeclaring(dn)), dn),
                                attribute |-> an, hasQualifier |-> FALSE,
                                datasetGroupQualifier |-> <<>>]
            ELSE IF ModelLevelDefs(dn) # {}
            THEN /\ rRef.ok
                 /\ ~rRef.val.hasQualifier
                 /\ rRef.val.attribute = an
                 /\ rRef.val.dimension.name = dn
                 /\ rRef.val.dimension.hasAttributes
                 /\ rRef.val.dimension.attributes
                        = ModelDimensions(rModel)[Least(ModelLevelDefs(dn))].attributes
            ELSE ~rRef.ok /\ rRef.err = "DimensionNotFound"

C9_Witness ==
    /\ Resolved
    /\ rSegs = << <<"d">>, <<"a">> >>
    /\ Cardinality(GroupsDeclaring(<<"d">>)) = 2
    /\ ModelLevelDefs(<<"d">>) # {}
    /\ rRef.ok
    /\ rRef.val.dimension = Joined(<<"d">>)

\* C10: a 3-segment path fails with GroupingNotFound when no dataset group
\* has the qualifier's name, fails with DimensionNotFound when that group
\* declares no DimensionRef of the middle segment's name (other groups and
\* the model-level dimensions are not consulted), and otherwise returns the
\* reference to that group's DimensionRef, carrying the qualifier.
C10_ThreeSegments ==
    (Resolved /\ Len(rSegs) = 3) =>
        LET named == {g \in DOMAIN rModel.datasetGroups :
                         rModel.datasetGroups[g].name = rSegs[1]}
        IN  IF named = {} THEN ~rRef.ok /\ rRef.err = "GroupingNotFound"
            ELSE IF Least(named) \notin GroupsDeclaring(rSegs[2])
            THEN ~rRef.ok /\ rRef.err = "DimensionNotFound"
            ELSE /\ rRef.ok
                 /\ rRef.val = [dimension |-> FirstDimRef(Least(named), rSegs[2]),
                                attribute |-> rSegs[3], hasQualifier |-> TRUE,
                                datasetGroupQualifier |-> rSegs[1]]

C10_Witness ==
    /\ rPc = "error"
    /\ rSegs = << <<"h">>, <<"d">>, <<"a">> >>
    /\ rRef.err = "DimensionNotFound"
    /\ ModelLevelDefs(<<"d">>) # {}
    /\ \E g \in DOMAIN rModel.datasetGroups : rModel.datasetGroups[g].name = <<"h">>

-----------------------------------------------------------------------------
(* C11..C13: attributeAlias and getAttribute *)

\* The attribute definitions named an among a list of them.
Named(attrs, an) == {i \in DOMAIN attrs : attrs[i].name = an}

\* The inline attribute definitions of a reference that carry its attribute name.
InlineMatches(ref) ==
    IF ref.dimension.hasAttributes THEN Named(ref.dimension.attributes, ref.attribute)
    ELSE {}

\* The model-level definitions, among dims, of the reference's dimension name.
DefsOf(dims, ref) == {i \in DOMAIN dims : dims[i].name = ref.dimension.name}

\* The attribute definitions the two tiers offer for a reference: the inline
\* ones of its name, and those of the first model-level definition of its
\* dimension name.
Candidates(dims, ref) ==
    {ref.dimension.attributes[i] : i \in InlineMatches(ref)}
    \cup (IF DefsOf(dims, ref) = {} THEN {}
          ELSE LET d == dims[Least(DefsOf(dims, ref))]
               IN  {d.attributes[i] : i \in Named(d.attributes, ref.attribute)})

LastSegment(path) == Split(path, ".")[Len(Split(path, "."))]

\* The row-dimension fields and column-keys of the accumulated rows and the
\* returned rows are built from resolved paths only.
PivotBuiltFrom(paths) ==
    \A p \in DOMAIN paths :
        LET r == ResolveAlias(paths[p], model)
            a == getAttribute(ModelDimensions(model), r.val.ref)
        IN  /\ r.ok
            /\ a.def
            /\ a.v.name = LastSegment(paths[p])
            /\ a.v \in Candidates(ModelDimensions(model), r.val.ref)

\* C11: when resolution and alias derivation of a path succeed, the
\* attribute definition found carries the name of the path's attribute
\* segment and is one of the DimensionRef's inline attributes or of the
\* model-level definition of the same dimension name; when neither tier has
\* such an attribute the alias derivation fails; and a pivot call that has
\* built a row-key, a field or a column-key has a defined attribute of that
\* name behind every requested path.
C11_ExactlyOneAttribute ==
    /\ rPc = "attr" =>
           /\ rAttr.def
           /\ rAttr.v.name = rSegs[Len(rSegs)]
           /\ rAttr.v \in Candidates(ModelDimensions(rModel), rRef.val)
    /\ (rPc \in {"alias", "attr", "error"} /\ rRef.ok
        /\ Candidates(ModelDimensions(rModel), rRef.val) = {}) =>
           /\ rPc = "error"
           /\ ~rAlias.ok
           /\ rAlias.err \in {"DimensionNotFound", "AttributeNotFound"}
    /\ (pc \in {"rows", "done"} /\ idx >= 1) =>
           /\ PivotBuiltFrom(query.rows)
           /\ HasColumns => PivotBuiltFrom(query.columns)

\* The requested attribute is missing from the inline attributes of the
\* DimensionRef and found in the model-level definition.
C11_Witness ==
    /\ rPc = "attr"
    /\ rSegs = << <<"h">>, <<"d">>, <<"e">> >>
    /\ rRef.val.dimension = Degenerate(<<"d">>, <<AttrA>>)
    /\ rAttr = [def |-> TRUE, v |-> AttrE]

\* attributeAlias has been called on the reference getAttributeRef returned.
AliasDerived == rRef.ok /\ rPc \in {"alias", "attr", "error"}

\* The qualifier, dimension and attribute segments of the resolver call's path.
QualifierSegment == IF Len(rSegs) = 3 THEN rSegs[1] \o <<".">> ELSE <<>>
DimensionSegment == rSegs[Len(rSegs) - 1]
AttributeSegment == rSegs[Len(rSegs)]

\* C12: when the resolved DimensionRef has an inline attribute of the
\* requested name, the alias is dimensionName.attributeName, prefixed by the
\* qualifier and a dot exactly when the path had 3 segments (the reference
\* then carries the qualifier); a display alias of the model-level
\* definition of that dimension is not used.
C12_InlineAlias ==
    (AliasDerived /\ InlineMatches(rRef.val) # {}) =>
        /\ rAlias.ok
        /\ rRef.val.hasQualifier <=> Len(rSegs) = 3
        /\ rAlias.val = QualifierSegment \o DimensionSegment \o <<".">> \o AttributeSegment
        /\ rAlias.val = Path(rSegs)

\* A dimension defined at model level only, with a display alias.
C12_Witness ==
    /\ rPc = "alias"
    /\ rSegs = << <<"d">>, <<"a">> >>
    /\ InlineMatches(rRef.val) # {}
    /\ \E i \in DefsOf(ModelDimensions(rModel), rRef.val) :
           ModelDimensions(rModel)[i].hasAlias
    /\ rAlias.val = <<"d", ".", "a">>

\* The inline alias of a qualified reference.
C12_WitnessQualified ==
    /\ rPc = "alias"
    /\ rSegs = << <<"h">>, <<"d">>, <<"a">> >>
    /\ rAlias.val = <<"h", ".", "d", ".", "a">>

\* C13: when the resolved DimensionRef has no inline attribute of the
\* requested name, alias derivation fails with DimensionNotFound if the
\* model-level list has no definition of the dimension's name, fails with
\* AttributeNotFound if the first such definition lacks the attribute, and
\* otherwise returns (display alias if set, else dimension name).attribute,
\* prefixed by the qualifier and a dot exactly when the reference carries one.
C13_ModelLevelAlias ==
    (AliasDerived /\ InlineMatches(rRef.val) = {}) =>
        LET dims == ModelDimensions(rModel)
        IN  IF DefsOf(dims, rRef.val) = {}
            THEN ~rAlias.ok /\ rAlias.err = "DimensionNotFound"
            ELSE LET d == dims[Least(DefsOf(dims, rRef.val))]
                 IN  IF Named(d.attributes, rRef.val.attribute) = {}
                     THEN ~rAlias.ok /\ rAlias.err = "AttributeNotFound"
                     ELSE /\ rAlias.ok
                          /\ rAlias.val =
                                 (IF rRef.val.hasQualifier
                                  THEN rRef.val.datasetGroupQualifier \o <<".">>
                                  ELSE <<>>)
                                 \o (IF d.hasAlias THEN d.alias ELSE d.name)
                                 \o <<".">> \o AttributeSegment

\* A qualified joined reference whose model-level definition has a display alias.
C13_Witness ==
    /\ rPc = "alias"
    /\ rSegs = << <<"g">>, <<"e">>, <<"a">> >>
    /\ rRef.val.dimension = Joined(<<"e">>)
    /\ rAlias.val = <<"g", ".", "x", ".", "a">>

-----------------------------------------------------------------------------
(* C14..C19: the pivot call *)

\* The output row a raw row is accumulated into.
OutputRowOf(i) == CHOOSE x \in DOMAIN DistinctRowKeys : DistinctRowKeys[x] = RowKeys[i]

\* C14: a requested metric that is null in a raw row, or absent from it,
\* contributes null at its position of the output metric sequence and the
\* pivot call does not fail, with and without column paths.
C14_NullOrAbsentMetric ==
    (pc \in {"done", "error"} /\ ModelFound /\ FirstUnresolvable = 0) =>
        \A i \in DOMAIN data : \A j \in DOMAIN query.metrics :
            RowGet(data[i], query.metrics[j]).t \in {"null", "undefined"} =>
                /\ pc = "done"
                /\ LET before == ContributorsUpTo(i - 1, RowKeys[i], MetricKeys[i])
                   IN  PropOf(result[OutputRowOf(i)], MetricKeys[i])
                           .arr[Len(before) * MetricCount + j] = Null

\* C15: a pivot call fails with ModelNotFound exactly when no model of the
\* schema has the requested name, whatever the data and the request are, and
\* it then has processed no raw row and built nothing.
C15_ModelNotFound ==
    pc # "start" =>
        /\ ~ModelFound =>
               /\ pc = "error"
               /\ err = "ModelNotFound"
               /\ idx = 0
               /\ model = NoModel
               /\ resultMap = <<>>
               /\ columnArr = <<>>
               /\ result = <<>>
        /\ ModelFound => err # "ModelNotFound"

C15_Witness ==
    /\ pc = "error"
    /\ err = "ModelNotFound"
    /\ modelName = orders
    /\ Len(data) = 2
    /\ query.rows = <<pCountry, pYear>>
    /\ query.columns = <<pDay>>

C16_WitnessResolve ==
    /\ rPrior.made
    /\ rPc = "attr"
    /\ Len(rSegs) = 3
    /\ rAlias = rPrior.alias
    /\ rAlias.ok

\* The alias of the p-th requested row path.
RowAlias(p) == ResolveAlias(query.rows[p], model).val.alias

\* The row-attribute values of the i-th raw row in declared row order:
\* converted to strings as a template literal does, and formatted.
RawTuple(i) == [p \in DOMAIN query.rows |-> TemplateStr(RowGet(data[i], RowAlias(p)))]
FormattedTuple(i) ==
    [p \in DOMAIN query.rows |-> FormattedValue(data[i], query.rows[p], model)]

RawTuples == [i \in DOMAIN data |-> RawTuple(i)]
FormattedTuples == [i \in DOMAIN data |-> FormattedTuple(i)]

Contains(s, ch) == \E x \in DOMAIN s : s[x] = ch

\* No string of the tuple contains the character.
Free(tuple, ch) == \A p \in DOMAIN tuple : ~Contains(tuple[p], ch)

\* How many elements of a sequence equal x.
Count(seq, x) == Cardinality({i \in DOMAIN seq : seq[i] = x})

\* The number of metric values accumulated in a row of resultMap.
RECURSIVE Accumulated(_)
Accumulated(obj) ==
    IF obj = <<>> THEN 0
    ELSE (IF obj[1].isArr THEN Len(obj[1].arr) ELSE 0) + Accumulated(Tail(obj))

\* The row-dimension field values of an output row in declared row order.
FieldValues(obj) == [p \in DOMAIN query.rows |-> PropOf(obj, RowAlias(p)).str]

\* C17 as stated: two raw rows are accumulated into the same output row
\* exactly when their formatted row-attribute values, in declared row order,
\* are equal; no two output rows carry the same row-dimension field values;
\* and the fields of an output row show the formatted values of all the raw
\* rows merged into it.
C17_FormattedValuesDecide ==
    pc = "done" =>
        LET groups == Dedupe(FormattedTuples)
        IN  /\ Len(result) = Len(groups)
            /\ \A r \in DOMAIN result :
                   /\ FieldValues(result[r]) = groups[r]
                   /\ Accumulated(resultMap[r].row)
                          = MetricCount * Count(FormattedTuples, groups[r])
            /\ \A r, t \in DOMAIN result :
                   r # t => FieldValues(result[r]) # FieldValues(result[t])

\* C17 amended: when no raw row-attribute value, converted to a string,
\* contains ',', two raw rows are accumulated into the same output row
\* exactly when these strings are equal in declared row order; the fields
\* of an output row show the formatted values of the first raw row merged
\* into it; two output rows always differ in those raw strings, but may
\* show equal fields.
C17_RawValuesDecide ==
    (pc = "done" /\ \A i \in DOMAIN data : Free(RawTuple(i), ",")) =>
        LET groups == Dedupe(RawTuples)
        IN  /\ Len(result) = Len(groups)
            /\ \A r \in DOMAIN result :
                   LET firstOf == Least({i \in DOMAIN data : RawTuple(i) = groups[r]})
                   IN  /\ FieldValues(result[r]) = FormattedTuple(firstOf)
                       /\ Accumulated(resultMap[r].row)
                              = MetricCount * Count(RawTuples, groups[r])

\* A null and an empty string are kept apart and show the same field.
C17_Witness ==
    /\ pc = "done"
    /\ query.rows = <<pCountry>>
    /\ MetricCount = 1
    /\ Len(data) = 2
    /\ RowGet(data[1], pCountry) = Null
    /\ RowGet(data[2], pCountry) = Str(<<>>)
    /\ Len(result) = 2
    /\ FieldValues(result[1]) = FieldValues(result[2])

\* Two raw rows of one country and different years are merged.
C17_WitnessMerged ==
    /\ pc = "done"
    /\ query.rows = <<pCountry>>
    /\ MetricCount = 2
    /\ Len(data) = 2
    /\ RowGet(data[1], pYear) # RowGet(data[2], pYear)
    /\ Len(result) = 1
    /\ Accumulated(resultMap[1].row) = 4

\* C18: every metric sequence of the output has a length that is a multiple
\* of the number m of requested metrics, and the element at position
\* i*m + j (i and j counted from 0, j < m) is the parsed value of the j-th
\* requested metric of the i-th raw row that contributed to the sequence; a
\* sequence without contributing row is the null filling of length m.
C18_MetricLayout ==
    pc = "done" =>
        LET rks == AsTuple(RowKeys)
            mks == AsTuple(MetricKeys)
            distinct == Dedupe(rks)
        IN  \A r \in DOMAIN result : \A a \in DOMAIN result[r] :
            result[r][a].isArr =>
                LET arr == result[r][a].arr
                    is == ContributorsIn(rks, mks, Len(data), distinct[r],
                                         result[r][a].key)
                IN  /\ IF MetricCount = 0 THEN arr = <<>>
                       ELSE Len(arr) % MetricCount = 0
                    /\ Len(arr) = (IF is = <<>> THEN 1 ELSE Len(is)) * MetricCount
                    /\ \A i \in DOMAIN is : \A j \in 1..MetricCount :
                           arr[(i - 1) * MetricCount + j]
                               = Contribution(data[is[i]])[j]
                    /\ is = <<>> => \A j \in 1..MetricCount : arr[j] = Null

\* Two raw rows with two metrics each in one "metrics" sequence.
C18_Witness ==
    /\ pc = "done"
    /\ ~HasColumns
    /\ query.metrics = <<revenue, cost>>
    /\ Len(data) = 2
    /\ Len(result) = 1
    /\ PropOf(result[1], MetricsKey).arr = <<Num(0), Num(5), Num(0), Num(5)>>

\* The keys of an object in its key order.
KeysOf(obj) == [i \in DOMAIN obj |-> obj[i].key]

\* The aliases of the requested row paths, each once, in declared order.
RowAliases == Dedupe([p \in DOMAIN query.rows |-> RowAlias(p)])

\* C19: without column paths and with non-empty data, every output row has
\* exactly its row-dimension alias fields followed by the key "metrics",
\* which holds the sequence accumulated for the row in the first pass,
\* unchanged; with column paths no output row has a "metrics" key.
C19_MetricsKey ==
    /\ (pc = "done" /\ ~HasColumns /\ data # <<>>) =>
           \A r \in DOMAIN result :
               /\ KeysOf(result[r]) = Append(RowAliases, MetricsKey)
               /\ \A p \in DOMAIN RowAliases : ~PropOf(result[r], RowAliases[p]).isArr
               /\ PropOf(result[r], MetricsKey).isArr
               /\ PropOf(result[r], MetricsKey) = PropOf(resultMap[r].row, MetricsKey)
               /\ Len(PropOf(result[r], MetricsKey).arr)
                      = MetricCount * Count(RowKeys, DistinctRowKeys[r])
    /\ (pc = "done" /\ HasColumns) =>
           \A r \in DOMAIN result : ~HasProp(result[r], MetricsKey)

C19_Witness ==
    /\ pc = "done"
    /\ ~HasColumns
    /\ query.rows = <<pCountry, pYear>>
    /\ query.metrics = <<revenue>>
    /\ Len(data) = 2
    /\ Len(result) = 2
    /\ KeysOf(result[2]) = <<pCountry, pYear, MetricsKey>>
    /\ PropOf(result[2], MetricsKey).arr = <<Num(62000)>>

-----------------------------------------------------------------------------
(* C20: isConformedQuery *)

\* The names of the model-level dimensions of a model, virtual or not.
ModelLevelNames(m) == {ModelDimensions(m)[i].name : i \in DOMAIN ModelDimensions(m)}

\* C20: isConformedQuery(model, paths) is true exactly when paths is
\* non-empty and every path has exactly 2 segments of which the first names
\* a dimension of the model-level list, virtual or not; an empty list, a
\* 3-segment path and a path with any other segment count make it false.
C20_ConformedQuery ==
    (uPc = "done" /\ uCall.fn = "isConformedQuery") =>
        /\ uRet <=>
               /\ uCall.segs # <<>>
               /\ \A i \in DOMAIN uCall.segs :
                      /\ Len(uCall.segs[i]) = 2
                      /\ uCall.segs[i][1] \in ModelLevelNames(uCall.model)
        /\ uCall.segs = <<>> => ~uRet
        /\ (\E i \in DOMAIN uCall.segs : Len(uCall.segs[i]) # 2) => ~uRet

\* A virtual model-level dimension, asked for twice, with and without an
\* attribute it defines.
C20_Witness ==
    /\ uPc = "done"
    /\ uRet
    /\ uCall.segs = << << <<"d">>, <<"a">> >>, << <<"d">>, <<"z">> >> >>
    /\ \E i \in DOMAIN ModelDimensions(uCall.model) :
           ModelDimensions(uCall.model)[i].virtual

\* A grouping-qualified path of a model-level dimension is not conformed.
C20_WitnessQualified ==
    /\ uPc = "done"
    /\ ~uRet
    /\ uCall.segs = << << <<"g">>, <<"d">>, <<"a">> >> >>
    /\ <<"d">> \in ModelLevelNames(uCall.model)

-----------------------------------------------------------------------------
(* Dimension attribute discovery (utils.ts:568-666)                         *)
(*   DimensionAttributeInfo [hasGroup, datasetGroup, dimension, attribute,  *)
(*                           key, isConformed, isVirtual]                   *)
(* datasetGroup: null is hasGroup = FALSE.  The conformedTracker Map is a   *)
(* sequence of [key, added, isVirtual] in insertion order; the loops carry  *)
(* st = [results, tracker].                                                 *)

\* utils.ts:596-603, 637-644 and 654-661
ConformedEntry(dimName, attrName, key, virt) ==
    [hasGroup |-> FALSE, datasetGroup |-> <<>>, dimension |-> dimName,
     attribute |-> attrName, key |-> key, isConformed |-> TRUE, isVirtual |-> virt]

\* utils.ts:609-616
GroupEntry(dgName, dimName, attrName) ==
    [hasGroup |-> TRUE, datasetGroup |-> dgName, dimension |-> dimName,
     attribute |-> attrName,
     key |-> dgName \o <<".">> \o dimName \o <<".">> \o attrName,
     isConformed |-> FALSE, isVirtual |-> FALSE]

\* conformedTracker.has(key)
TrackerHas(tracker, key) == \E i \in DOMAIN tracker : tracker[i].key = key

ConformedKeyBug(dimName, attrName) == attrName \o <<".">> \o dimName

\* `${dimRef.name}.${attrName}`
ConformedKey(dimName, attrName) == dimName \o <<".">> \o attrName

AddVirtualOnceBug(st, dimName, attrName) ==
    [results |-> Append(st.results,
                        ConformedEntry(dimName, attrName,
                                       ConformedKey(dimName, attrName), TRUE)),
     tracker |-> Append(st.tracker, [key |-> ConformedKey(dimName, attrName),
                                     added |-> TRUE, isVirtual |-> TRUE])]

\* utils.ts:594-604 and 635-645
AddVirtualOnce(st, dimName, attrName) ==
    IF TrackerHas(st.tracker, ConformedKey(dimName, attrName)) THEN st
    ELSE [results |-> Append(st.results,
                             ConformedEntry(dimName, attrName,
                                            ConformedKey(dimName, attrName), TRUE)),
          tracker |-> Append(st.tracker, [key |-> ConformedKey(dimName, attrName),
                                          added |-> TRUE, isVirtual |-> TRUE])]

\* utils.ts:609-621
AddPhysical(st, m, dgName, dimName, attrName) ==
    [results |-> Append(st.results, GroupEntry(dgName, dimName, attrName)),
     tracker |-> IF /\ isConformed(m, dimName, attrName)
                    /\ ~TrackerHas(st.tracker, ConformedKey(dimName, attrName))
                 THEN Append(st.tracker, [key |-> ConformedKey(dimName, attrName),
                                          added |-> FALSE, isVirtual |-> FALSE])
                 ELSE st.tracker]

\* utils.ts:586-622, the attributes of one dimension reference from i on
RECURSIVE VisitAttributes(_, _, _, _, _, _, _)
VisitAttributes(st, m, dgName, dimName, attributes, virt, i) ==
    IF i > Len(attributes) THEN st
    ELSE VisitAttributes(IF virt
                         THEN AddVirtualOnce(st, dimName, attributes[i].name)
                         ELSE AddPhysical(st, m, dgName, dimName, attributes[i].name),
                         m, dgName, dimName, attributes, virt, i + 1)

\* dimRef.attributes || topLevelDim?.attributes || []
RefAttributes(dimRef, dims) ==
    IF dimRef.hasAttributes THEN dimRef.attributes
    ELSE IF IndexOfName(dims, dimRef.name) # 0
    THEN dims[IndexOfName(dims, dimRef.name)].attributes
    ELSE <<>>

\* topLevelDim?.virtual === true
RefIsVirtual(dimRef, dims) ==
    /\ IndexOfName(dims, dimRef.name) # 0
    /\ dims[IndexOfName(dims, dimRef.name)].virtual

\* utils.ts:578-623, the dimension references of one dataset group from j on
RECURSIVE VisitDimRefs(_, _, _, _)
VisitDimRefs(st, m, group, j) ==
    IF j > Len(group.dimensions) THEN st
    ELSE VisitDimRefs(
             VisitAttributes(st, m, group.name, group.dimensions[j].name,
                             RefAttributes(group.dimensions[j], ModelDimensions(m)),
                             RefIsVirtual(group.dimensions[j], ModelDimensions(m)), 1),
             m, group, j + 1)

\* utils.ts:577-624, the dataset groups from i on
RECURSIVE VisitGroups(_, _, _)
VisitGroups(st, m, i) ==
    IF i > Len(m.datasetGroups) THEN st
    ELSE VisitGroups(VisitDimRefs(st, m, m.datasetGroups[i], 1), m, i + 1)

\* utils.ts:630-646, the attributes of one virtual model-level dimension
RECURSIVE VisitVirtualAttributes(_, _, _, _)
VisitVirtualAttributes(st, dimName, attributes, i) ==
    IF i > Len(attributes) THEN st
    ELSE VisitVirtualAttributes(AddVirtualOnce(st, dimName, attributes[i].name),
                                dimName, attributes, i + 1)

\* utils.ts:628-648, the model-level dimensions from i on
RECURSIVE VisitModelDimensions(_, _, _)
VisitModelDimensions(st, dims, i) ==
    IF i > Len(dims) THEN st
    ELSE VisitModelDimensions(
             IF dims[i].virtual
             THEN VisitVirtualAttributes(st, dims[i].name, dims[i].attributes, 1)
             ELSE st,
             dims, i + 1)

\* utils.ts:651-663, the tracker entries from i on; const [dim, attr] =
\* key.split('.') takes the first two parts of the key
RECURSIVE AddConformed(_, _, _)
AddConformed(results, tracker, i) ==
    IF i > Len(tracker) THEN results
    ELSE AddConformed(
             IF ~tracker[i].added /\ ~tracker[i].isVirtual
             THEN Append(results,
                         ConformedEntry(Split(tracker[i].key, ".")[1],
                                        Split(tracker[i].key, ".")[2],
                                        tracker[i].key, FALSE))
             ELSE results,
             tracker, i + 1)

\* The results and tracker after the two loops of steps 1 and 2.
DiscoveryLoops(m) ==
    VisitModelDimensions(VisitGroups([results |-> <<>>, tracker |-> <<>>], m, 1),
                         ModelDimensions(m), 1)

\* Step 3 on the results and tracker of the loops.
ConformedAdded(st) == AddConformed(st.results, st.tracker, 1)

\* utils.ts:568-666
getAllDimensionAttributes(m) == ConformedAdded(DiscoveryLoops(m))

\* Bound on the dimension references of one dataset group.
MaxRefs == 2

\* Model-level definitions and dimension references the discovery models
\* are built from; names are unique within a list.
DefChoices ==
    { Dim(<<"d">>, <<AttrADate, AttrE>>),
      [name |-> <<"d">>, hasAlias |-> TRUE, alias |-> <<"h">>, attributes |-> <<AttrA>>,
       virtual |-> TRUE],
      [name |-> <<"e">>, hasAlias |-> TRUE, alias |-> <<"x">>, attributes |-> <<AttrA>>,
       virtual |-> FALSE] }

RefChoices ==
    { Joined(<<"d">>), Joined(<<"e">>), Degenerate(<<"d">>, <<AttrA>>),
      Degenerate(<<"e">>, <<AttrA>>), Degenerate(<<"e">>, <<AttrE>>) }

UniqueNames(seq) == \A i, j \in DOMAIN seq : i # j => seq[i].name # seq[j].name

DefLists == {q \in SeqsUpTo(DefChoices, 2) : UniqueNames(q)}
RefLists == {q \in SeqsUpTo(RefChoices, MaxRefs) : UniqueNames(q)}

DiscoveryModels ==
    ResolverModels
    \cup { [name |-> <<"m">>, hasDimensions |-> TRUE, dimensions |-> ds,
            datasetGroups |-> << [name |-> <<"g">>, dimensions |-> gs],
                                 [name |-> <<"h">>, dimensions |-> hs] >>] :
              ds \in DefLists, gs \in RefLists, hs \in RefLists }

InitDiscovery ==
    /\ PivotIdle
    /\ ResolverIdle
    /\ \E m \in DiscoveryModels :
           uCall = [fn |-> "getAllDimensionAttributes", model |-> m, segs |-> <<>>,
                    paths |-> <<>>]
    /\ uPc = "call"
    /\ uRet = <<>>

CallGetAllDimensionAttributes ==
    /\ uPc = "call"
    /\ uCall.fn = "getAllDimensionAttributes"
    /\ uRet' = getAllDimensionAttributes(uCall.model)
    /\ uPc' = "done"
    /\ UNCHANGED uCall
    /\ UNCHANGED pivotVars
    /\ UNCHANGED resolverVars

\* One of the returned keys is handed to the resolver as a pivot path of
\* the same model.
UseKey ==
    /\ uPc = "done"
    /\ uCall.fn = "getAllDimensionAttributes"
    /\ rPc = "idle"
    /\ \E i \in DOMAIN uRet :
           /\ rPath' = uRet[i].key
           /\ rSegs' = Split(uRet[i].key, ".")
    /\ rModel' = uCall.model
    /\ rPc' = "call"
    /\ UNCHANGED <<rRef, rAlias, rAttr, rPrior>>
    /\ UNCHANGED pivotVars
    /\ UNCHANGED utilVars

NextDiscovery ==
    \/ CallGetAllDimensionAttributes
    \/ UseKey
    \/ CallGetAttributeRef
    \/ CallAttributeAlias
    \/ CallGetAttribute

SpecDiscovery == InitDiscovery /\ [][NextDiscovery]_vars

-----------------------------------------------------------------------------
(* Properties of dimension attribute discovery *)

Discovered == uPc = "done" /\ uCall.fn = "getAllDimensionAttributes"

GroupNames(m) == {m.datasetGroups[i].name : i \in DOMAIN m.datasetGroups}

\* The names of the model-level dimensions flagged virtual.
VirtualNames(m) ==
    {ModelDimensions(m)[i].name :
        i \in {k \in DOMAIN ModelDimensions(m) : ModelDimensions(m)[k].virtual}}

ConformedShape(e) ==
    /\ ~e.hasGroup
    /\ e.key = e.dimension \o <<".">> \o e.attribute
    /\ Len(Split(e.key, ".")) = 2
    /\ e.isConformed

GroupShape(e, m) ==
    /\ e.hasGroup
    /\ e.datasetGroup \in GroupNames(m)
    /\ e.key = e.datasetGroup \o <<".">> \o e.dimension \o <<".">> \o e.attribute
    /\ Len(Split(e.key, ".")) = 3
    /\ ~e.isConformed
    /\ ~e.isVirtual

\* C21: every entry getAllDimensionAttributes returns either has
\* datasetGroup = null, the 2-part key dimension.attribute and isConformed =
\* true, or has a grouping name as datasetGroup, the 3-part key
\* grouping.dimension.attribute, isConformed = false and isVirtual = false;
\* no two entries with datasetGroup = null share a key; a dimension flagged
\* virtual at model level has no grouping-specific entry.
C21_EntryShapes ==
    Discovered =>
        /\ \A i \in DOMAIN uRet :
               ConformedShape(uRet[i]) \/ GroupShape(uRet[i], uCall.model)
        /\ \A i, j \in DOMAIN uRet :
               (i # j /\ ~uRet[i].hasGroup /\ ~uRet[j].hasGroup)
                   => uRet[i].key # uRet[j].key
        /\ \A i \in DOMAIN uRet :
               uRet[i].hasGroup => uRet[i].dimension \notin VirtualNames(uCall.model)

\* A virtual dimension referenced by both groupings next to a physical
\* model-level dimension: one virtual entry, grouping-specific entries and a
\* conformed entry added by step 3.
C21_Witness ==
    /\ Discovered
    /\ \E i \in DOMAIN uRet : ~uRet[i].hasGroup /\ uRet[i].isVirtual
    /\ \E i \in DOMAIN uRet : ~uRet[i].hasGroup /\ ~uRet[i].isVirtual
    /\ \E i \in DOMAIN uRet : uRet[i].hasGroup
    /\ \E i, j \in DOMAIN uCall.model.datasetGroups :
           /\ i # j
           /\ \E k \in DOMAIN uCall.model.datasetGroups[i].dimensions :
                  uCall.model.datasetGroups[i].dimensions[k].name
                      \in VirtualNames(uCall.model)
           /\ \E k \in DOMAIN uCall.model.datasetGroups[j].dimensions :
                  uCall.model.datasetGroups[j].dimensions[k].name
                      \in VirtualNames(uCall.model)

-----------------------------------------------------------------------------
(* Pivot calls whose row paths include the date attribute *)

FieldRowChoices == { <<pDay>>, <<pDay, pCountry>>, <<pChannel, pYear>> }

FieldQueries == [rows : FieldRowChoices, columns : {<<>>, <<pYear>>},
                 metrics : {<<revenue>>}]

InitFields ==
    /\ schema = TheSchema
    /\ modelName \in ModelNames
    /\ query \in FieldQueries
    /\ data \in SeqsUpTo(RawRows, MaxRows)
    /\ pc = "start"
    /\ model = NoModel
    /\ idx = 0
    /\ resultMap = <<>>
    /\ columnArr = <<>>
    /\ result = <<>>
    /\ err = "none"
    /\ prior = NoCall
    /\ ResolverIdle
    /\ UtilIdle

SpecFields == InitFields /\ [][Next]_vars

\* The lower-cased type of the attribute the p-th row path names.
RowAttrType(p) ==
    LET attr == getAttribute(ModelDimensions(model),
                             getAttributeRef(query.rows[p], model).val)
    IN  IF attr.def /\ attr.v.hasType THEN ToLowerCase(attr.v.type) ELSE <<>>

\* YYYY-MM-DD
IsIsoDate(s) ==
    /\ Len(s) = 10
    /\ s[5] = "-"
    /\ s[8] = "-"
    /\ \A i \in {1, 2, 3, 4, 6, 7, 9, 10} : IsDigit(s[i])

\* What the claim says a row-dimension field shows for the raw value v of
\* an attribute of type ty.
FieldShows(str, v, ty) ==
    /\ v.t \in {"null", "undefined"} => str = <<>>
    /\ (ty = TypeDate /\ v.t = "number") => (str = formatDate(v.n) /\ IsIsoDate(str))
    /\ (ty \notin {TypeDate, TypeTimestamp} /\ v.t = "string") => str = v.s
    /\ (ty \notin {TypeDate, TypeTimestamp} /\ v.t = "number") => str = NumToStr(v.n)

C22_WitnessMerged ==
    /\ pc = "done"
    /\ query.rows = <<pDay>>
    /\ Len(data) = 2
    /\ Len(result) = 1
    /\ data[1] # data[2]
    /\ PropOf(result[1], pDay).str = <<"2", "0", "2", "4", "-", "0", "1", "-", "0", "1">>

-----------------------------------------------------------------------------
(* C23: which failure the alias derivation reports *)

\* The resolved dimension has an attribute list: the inline attributes of the
\* DimensionRef, or else those of the model-level definition of its name.
HasAttributeList(dims, ref) == ref.dimension.hasAttributes \/ DefsOf(dims, ref) # {}

ResolvedAttributes(dims, ref) ==
    IF ref.dimension.hasAttributes THEN ref.dimension.attributes
    ELSE dims[Least(DefsOf(dims, ref))].attributes

AliasFailed == AliasDerived /\ ~rAlias.ok

\* C23 as stated: whenever the dimension segment resolves to a DimensionRef
\* and the attribute segment matches no attribute of the resolved
\* dimension's attribute list, the failure reported is AttributeNotFound,
\* also for a degenerate DimensionRef without a model-level definition of
\* its name.
C23_AttributeNotFound ==
    (/\ AliasFailed
     /\ HasAttributeList(ModelDimensions(rModel), rRef.val)
     /\ Named(ResolvedAttributes(ModelDimensions(rModel), rRef.val),
              rRef.val.attribute) = {})
        => rAlias.err = "AttributeNotFound"

\* C23 amended: when the dimension segment resolves to a DimensionRef, the
\* alias derivation fails exactly when neither the inline attributes nor
\* the model-level definition of the dimension name has the attribute; the
\* failure is AttributeNotFound when a model-level definition of that name
\* exists and DimensionNotFound when none exists, inline attributes or not.
C23_FailureByModelLevel ==
    AliasDerived =>
        /\ ~rAlias.ok <=> Candidates(ModelDimensions(rModel), rRef.val) = {}
        /\ ~rAlias.ok =>
               rAlias.err = IF DefsOf(ModelDimensions(rModel), rRef.val) = {}
                            THEN "DimensionNotFound"
                            ELSE "AttributeNotFound"

\* A degenerate DimensionRef with inline attributes, none of the requested
\* name, and no model-level definition: DimensionNotFound.
C23_Witness ==
    /\ AliasFailed
    /\ rRef.val.dimension.hasAttributes
    /\ rRef.val.dimension.attributes # <<>>
    /\ InlineMatches(rRef.val) = {}
    /\ DefsOf(ModelDimensions(rModel), rRef.val) = {}
    /\ rAlias.err = "DimensionNotFound"

\* A joined DimensionRef whose model-level definition lacks the attribute.
C23_WitnessAttribute ==
    /\ AliasFailed
    /\ ~rRef.val.dimension.hasAttributes
    /\ DefsOf(ModelDimensions(rModel), rRef.val) # {}
    /\ rAlias.err = "AttributeNotFound"

-----------------------------------------------------------------------------
(* C24: accumulation over a prefix and a suffix of the raw rows *)

\* resultMap after the callback has run on the raw rows d from i on,
\* starting from the map rm and the observed column keys ca.
RECURSIVE AccumulateFrom(_, _, _, _)
AccumulateFrom(d, i, rm, ca) ==
    IF i > Len(d) THEN rm
    ELSE AccumulateFrom(d, i + 1, ProcessRow(d[i], query, model, rm, ca).val.rm,
                        ProcessRow(d[i], query, model, rm, ca).val.ca)

\* The accumulation a pivot call on the raw rows d builds before densifying.
AccumulatedFrom(d) == AccumulateFrom(d, 1, NewMap, <<>>)

\* The metric sequence a map holds for a (row-key, key) pair; empty when the
\* pair was not observed.
SequenceFor(rm, rk, k) ==
    IF MapIndex(rm, rk) = 0 THEN <<>> ELSE StoredArray(rm[MapIndex(rm, rk)].row, k)

\* C24: for every split of the raw rows into a prefix d1 and a suffix d2 and
\* every (row-key, column-key) pair observed in the raw rows ("metrics" being
\* the key without column paths), the metric sequence the pivot of all rows
\* holds for the pair is the sequence accumulated from d1 for it followed by
\* the sequence accumulated from d2 for it, an unobserved pair counting as
\* the empty sequence.
C24_PartitionMerge ==
    pc = "done" =>
        LET rks == AsTuple(RowKeys)
            mks == AsTuple(MetricKeys)
            distinct == Dedupe(rks)
        IN  \A k \in 0..Len(data) :
                LET m1 == AsTuple(AccumulatedFrom(SubSeq(data, 1, k)))
                    m2 == AsTuple(AccumulatedFrom(SubSeq(data, k + 1, Len(data))))
                IN  \A i \in DOMAIN data :
                        LET r == CHOOSE x \in DOMAIN distinct : distinct[x] = rks[i]
                        IN  /\ HasProp(result[r], mks[i])
                            /\ PropOf(result[r], mks[i]).isArr
                            /\ PropOf(result[r], mks[i]).arr
                                   = SequenceFor(m1, rks[i], mks[i])
                                     \o SequenceFor(m2, rks[i], mks[i])

\* Two raw rows of one row-key and one column-key with different metric
\* values: the split between them puts one contribution on each side.
C24_Witness ==
    /\ pc = "done"
    /\ HasColumns
    /\ MetricCount = 1
    /\ Len(data) = 2
    /\ RowKeys[1] = RowKeys[2]
    /\ MetricKeys[1] = MetricKeys[2]
    /\ Len(PropOf(result[1], MetricKeys[1]).arr) = 2
    /\ PropOf(result[1], MetricKeys[1]).arr[1] # PropOf(result[1], MetricKeys[1]).arr[2]
    /\ Len(SequenceFor(AccumulatedFrom(SubSeq(data, 1, 1)), RowKeys[1], MetricKeys[1])) = 1

\* A pair observed only in the suffix.
C24_WitnessUnobserved ==
    /\ pc = "done"
    /\ Len(data) = 2
    /\ Len(result) = 2
    /\ MetricCount = 1
    /\ SequenceFor(AccumulatedFrom(SubSeq(data, 1, 1)), RowKeys[2], MetricKeys[2]) = <<>>
    /\ Len(PropOf(result[2], MetricKeys[2]).arr) = 1

-----------------------------------------------------------------------------
(* formatDate on values beyond 32 bits                                      *)
(* A JavaScript number n is held as [hi, lo] with n = hi * 86400000 + lo    *)
(* and 0 <= lo < 86400000, so that the products of the day branch and the   *)
(* millisecond epochs of the claimed range are exact.                       *)

WideOf(n) == [hi |-> n \div MsPerDay, lo |-> n % MsPerDay]

\* d * 86400000
TimesMsPerDay(d) == [hi |-> d, lo |-> 0]

ExceedsThresholdBug(w) == w.hi > 0 \/ (w.hi = 0 /\ w.lo >= DateThreshold)

\* value > 100000 (utils.ts:283); 100000 < 86400000
ExceedsThreshold(w) == w.hi > 0 \/ (w.hi = 0 /\ w.lo > DateThreshold)

\* The day new Date(milliseconds) falls in (utils.ts:283-291): the day
\* count floor(value / 86400000) of a millisecond value, the value itself
\* in the day branch.
DayOfWide(w) ==
    IF ExceedsThreshold(w) THEN w.hi ELSE w.hi * MsPerDay + w.lo

\* `${year}-${month}-${day}` (utils.ts:293-296)
RenderDate(c) == NumToStr(c.year) \o <<"-">> \o Pad2(c.month) \o <<"-">> \o Pad2(c.day)

\* utils.ts:277-297 on a number given as [hi, lo]
formatDateWide(w) == RenderDate(CivilFromDays(DayOfWide(w)))

\* Values formatDate is called on: day counts and millisecond values around
\* the threshold and around one day, and the products d * 86400000.
DateValues == {-1, 0, 1, 2, 99999, 100000, 100001, 100002, 86399999, 86400000,
               86400001, 1700000000}

DateInputs ==
    {WideOf(v) : v \in DateValues}
    \cup {TimesMsPerDay(d) : d \in 1..(DateThreshold + 1)}

InitDates ==
    /\ PivotIdle
    /\ ResolverIdle
    /\ \E w \in DateInputs :
           uCall = [fn |-> "formatDate", model |-> NoModel, segs |-> <<>>,
                    paths |-> <<>>, value |-> w]
    /\ uPc = "call"
    /\ uRet = <<>>

CallFormatDate ==
    /\ uPc = "call"
    /\ uCall.fn = "formatDate"
    /\ uRet' = formatDateWide(uCall.value)
    /\ uPc' = "done"
    /\ UNCHANGED uCall
    /\ UNCHANGED pivotVars
    /\ UNCHANGED resolverVars

NextDates == CallFormatDate

SpecDates == InitDates /\ [][NextDates]_vars

-----------------------------------------------------------------------------
(* C25 *)

DateFormatted == uPc = "done" /\ uCall.fn = "formatDate"

\* The calendar date of a day count, from a count of the days of each year
\* and month since 1970-01-01.
IsLeap(y) == (y % 4 = 0 /\ y % 100 # 0) \/ y % 400 = 0
DaysInYear(y) == IF IsLeap(y) THEN 366 ELSE 365
DaysInMonth(y, m) ==
    IF m = 2 THEN (IF IsLeap(y) THEN 29 ELSE 28)
    ELSE IF m \in {4, 6, 9, 11} THEN 30 ELSE 31

\* The days before 1 January of year y, counted from 1970-01-01.
DaysBeforeYear(y) ==
    (y - 1970) * 365 + ((y - 1969) \div 4) - ((y - 1901) \div 100) + ((y - 1601) \div 400)

RECURSIVE DaysBeforeMonth(_, _)
DaysBeforeMonth(y, m) ==
    IF m = 1 THEN 0 ELSE DaysBeforeMonth(y, m - 1) + DaysInMonth(y, m - 1)

\* c is the calendar date of day count d.
IsDateOfDay(c, d) ==
    /\ c.month \in 1..12
    /\ c.day \in 1..DaysInMonth(c.year, c.month)
    /\ DaysBeforeYear(c.year) + DaysBeforeMonth(c.year, c.month) + (c.day - 1) = d

\* The date a YYYY-MM-DD string denotes.
DateOfString(s) ==
    [year |-> DigitsVal(SubSeq(s, 1, 4), 0), month |-> DigitsVal(SubSeq(s, 6, 7), 0),
     day |-> DigitsVal(SubSeq(s, 9, 10), 0)]

\* C25: formatDate reads an integer v <= 100000 as a day count since
\* 1970-01-01 and v > 100000 as a millisecond epoch, and for every day count
\* d with 1 <= d <= 100000, formatDate(d) and formatDate(d * 86400000) are
\* the same YYYY-MM-DD string, that of the d-th day after 1970-01-01.
C25_DayOrMilliseconds ==
    DateFormatted =>
        /\ IsIsoDate(uRet)
        /\ (uCall.value.hi < 0 \/ (uCall.value.hi = 0 /\ uCall.value.lo <= DateThreshold)) =>
               IsDateOfDay(DateOfString(uRet), uCall.value.hi * MsPerDay + uCall.value.lo)
        /\ (uCall.value.hi > 0 \/ (uCall.value.hi = 0 /\ uCall.value.lo > DateThreshold)) =>
               IsDateOfDay(DateOfString(uRet), uCall.value.hi)
        /\ (uCall.value.lo = 0 /\ uCall.value.hi \in 1..DateThreshold) =>
               /\ uRet = formatDate(uCall.value.hi)
               /\ IsDateOfDay(DateOfString(formatDate(uCall.value.hi)), uCall.value.hi)

\* The last day count of the range and its millisecond value: 2243-10-17.
C25_Witness ==
    /\ DateFormatted
    /\ uCall.value = TimesMsPerDay(DateThreshold)
    /\ uRet = <<"2", "2", "4", "3", "-", "1", "0", "-", "1", "7">>
    /\ formatDate(DateThreshold) = uRet

\* The value 100001 is read as milliseconds of 1970-01-01.
C25_WitnessThreshold ==
    /\ DateFormatted
    /\ uCall.value = WideOf(DateThreshold + 1)
    /\ uRet = <<"1", "9", "7", "0", "-", "0", "1", "-", "0", "1">>

-----------------------------------------------------------------------------
(* Pivot calls on raw rows whose values contain the key delimiters *)

\* Values that contain ',' or '|' followed by the alias of the next path
\* and ':', and values with a delimiter alone.
KeyRows ==
    { (pCountry :> Str(<<"x", ",">> \o pYear \o <<":", "y">>)) @@ (pYear :> Str(<<"z">>))
          @@ (pChannel :> Str(<<"c">>)) @@ (revenue :> Num(1)),
      (pCountry :> Str(<<"x">>)) @@ (pYear :> Str(<<"y", ",">> \o pYear \o <<":", "z">>))
          @@ (pChannel :> Str(<<"c">>)) @@ (revenue :> Num(2)),
      (pCountry :> Str(<<"x">>)) @@ (pYear :> Str(<<"a", "|">> \o pChannel \o <<":", "b">>))
          @@ (pChannel :> Str(<<"c">>)) @@ (revenue :> Num(3)),
      (pCountry :> Str(<<"x">>)) @@ (pYear :> Str(<<"a">>))
          @@ (pChannel :> Str(<<"b", "|">> \o pChannel \o <<":", "c">>))
          @@ (revenue :> Num(4)),
      (pCountry :> Str(<<"U", ":", "K">>)) @@ (pYear :> Num(2023))
          @@ (pChannel :> Str(<<"a", "|", "b">>)) @@ (revenue :> Num(5)),
      (pCountry :> Str(<<"U">>)) @@ (pYear :> Str(<<"K", ":", "2", "0", "2", "3">>))
          @@ (pChannel :> Str(<<"a", ":", "b">>)) @@ (revenue :> Num(6)) }

KeyQueries == [rows : {<<pCountry>>, <<pCountry, pYear>>},
               columns : {<<>>, <<pChannel>>, <<pYear, pChannel>>},
               metrics : {<<revenue>>}]

InitKeys ==
    /\ schema = TheSchema
    /\ modelName \in ModelNames
    /\ query \in KeyQueries
    /\ data \in SeqsUpTo(KeyRows, MaxRows)
    /\ pc = "start"
    /\ model = NoModel
    /\ idx = 0
    /\ resultMap = <<>>
    /\ columnArr = <<>>
    /\ result = <<>>
    /\ err = "none"
    /\ prior = NoCall
    /\ ResolverIdle
    /\ UtilIdle

SpecKeys == InitKeys /\ [][Next]_vars

-----------------------------------------------------------------------------
(* C26 *)

\* The formatted column-attribute values of the i-th raw row in declared
\* column order.
FormattedColumnTuple(i) ==
    [c \in DOMAIN query.columns |-> FormattedValue(data[i], query.columns[c], model)]

\* The keys the callback has computed so far, as the program holds them: the
\* key of the resultMap entry the i-th raw row went to is its row-key.
Processed == {i \in DOMAIN data : i <= idx}

\* C26 as stated: two raw rows whose stringified raw row-attribute values
\* differ for some declared row path never get the same row-key, and two
\* raw rows whose formatted column-attribute values differ for some declared
\* column path never get the same column-key, whatever characters the
\* values contain.
C26_KeysInjective ==
    pc \in {"rows", "done"} =>
        LET rks == AsTuple(RowKeys)
            mks == AsTuple(MetricKeys)
        IN  \A i, j \in Processed :
                /\ RawTuple(i) # RawTuple(j) => rks[i] # rks[j]
                /\ (HasColumns /\ FormattedColumnTuple(i) # FormattedColumnTuple(j))
                       => mks[i] # mks[j]

\* C26 amended: two raw rows whose stringified raw row-attribute values
\* differ get different row-keys when none of these values contains ','
\* or when one row path is declared; two raw rows whose formatted
\* column-attribute values differ get different column-keys when none of
\* these values contains '|' or when one column path is declared; ':' in a
\* value is harmless.  The keys are those of the entries of resultMap and
\* of the observed column-keys.
C26_InjectiveWithoutDelimiter ==
    pc \in {"rows", "done"} =>
        LET rks == AsTuple(RowKeys)
            mks == AsTuple(MetricKeys)
        IN  /\ \A i \in Processed :
                   /\ MapIndex(resultMap, rks[i]) # 0
                   /\ HasColumns => \E c \in DOMAIN columnArr : columnArr[c] = mks[i]
            /\ \A i, j \in Processed :
                   /\ (/\ RawTuple(i) # RawTuple(j)
                       /\ \/ Len(query.rows) = 1
                          \/ Free(RawTuple(i), ",") /\ Free(RawTuple(j), ","))
                          => rks[i] # rks[j]
                   /\ (/\ HasColumns
                       /\ FormattedColumnTuple(i) # FormattedColumnTuple(j)
                       /\ \/ Len(query.columns) = 1
                          \/ /\ Free(FormattedColumnTuple(i), "|")
                             /\ Free(FormattedColumnTuple(j), "|"))
                          => mks[i] # mks[j]

\* Two raw rows with ':' in their values and different values on two row
\* paths, and one column path whose values contain '|' and ':': two output
\* rows and two column-keys.
C26_Witness ==
    /\ pc = "done"
    /\ Len(query.rows) = 2
    /\ Len(query.columns) = 1
    /\ Len(data) = 2
    /\ Contains(RawTuple(1)[1], ":")
    /\ Contains(RawTuple(2)[2], ":")
    /\ Free(RawTuple(1), ",") /\ Free(RawTuple(2), ",")
    /\ Contains(FormattedColumnTuple(1)[1], "|")
    /\ Contains(FormattedColumnTuple(2)[1], ":")
    /\ Len(result) = 2
    /\ Cardinality({columnArr[c] : c \in DOMAIN columnArr}) = 2

\* Two raw rows with different values and one row-key: a value ends in
\* ',' and the next alias.
C26_WitnessCollision ==
    /\ pc = "done"
    /\ Len(data) = 2
    /\ RawTuple(1) # RawTuple(2)
    /\ RowKeys[1] = RowKeys[2]
    /\ Len(result) = 1

-----------------------------------------------------------------------------
(* C27: the alias of a model-level dimension by the route of resolution *)

\* The 2-segment path was resolved through a grouping's joined DimensionRef.
ViaJoinedRef ==
    /\ AliasDerived
    /\ Len(rSegs) = 2
    /\ GroupsDeclaring(DimensionSegment) # {}
    /\ ~rRef.val.dimension.hasAttributes

\* The 2-segment path was resolved through the model-level fallback.
ViaFallback ==
    /\ AliasDerived
    /\ Len(rSegs) = 2
    /\ GroupsDeclaring(DimensionSegment) = {}

\* The model-level definition the dimension segment names.
TheDef == ModelDimensions(rModel)[Least(ModelLevelDefs(DimensionSegment))]

\* The model without the DimensionRefs named dn: no grouping declares dn.
WithoutRefsTo(m, dn) ==
    [m EXCEPT !.datasetGroups =
        [g \in DOMAIN m.datasetGroups |->
            [m.datasetGroups[g] EXCEPT !.dimensions =
                SelectSeq(m.datasetGroups[g].dimensions, LAMBDA d : d.name # dn)]]]

\* The alias of the resolver call's path on the same model-level
\* definitions when no grouping declares the dimension.
FallbackAlias ==
    LET m2 == WithoutRefsTo(rModel, DimensionSegment)
    IN  AliasOfRef(getAttributeRef(rPath, m2), m2, rPath)

\* C27 as stated: the alias of an unqualified 2-segment path to a
\* model-level DimensionDef is the same string whether the path is resolved
\* through a grouping's joined DimensionRef of that name or through the
\* model-level fallback used when no grouping declares the dimension.
C27_SameAliasBothRoutes ==
    (ViaJoinedRef /\ rAlias.ok) =>
        /\ FallbackAlias.ok
        /\ FallbackAlias.val.alias = rAlias.val

\* C27 amended: through a joined DimensionRef the alias is
\* (display alias or name).attribute of the model-level definition; through
\* the model-level fallback it is name.attribute, the display alias not
\* being used; the two routes give one string exactly when the definition
\* has no display alias other than its name.
C27_AliasByRoute ==
    /\ (ViaJoinedRef /\ rAlias.ok) =>
           /\ rAlias.val = DimAlias(TheDef) \o <<".">> \o AttributeSegment
           /\ FallbackAlias.ok
           /\ FallbackAlias.val.alias = TheDef.name \o <<".">> \o AttributeSegment
           /\ FallbackAlias.val.alias = rAlias.val <=> DimAlias(TheDef) = TheDef.name
    /\ (ViaFallback /\ rAlias.ok) =>
           rAlias.val = TheDef.name \o <<".">> \o AttributeSegment

\* A dimension with a display alias, joined in a grouping: x.a through the
\* joined DimensionRef, e.a through the fallback.
C27_Witness ==
    /\ ViaJoinedRef
    /\ rAlias.ok
    /\ TheDef.hasAlias
    /\ rAlias.val = <<"x", ".", "a">>
    /\ FallbackAlias.val.alias = <<"e", ".", "a">>

\* A dimension with a display alias that no grouping declares.
C27_WitnessFallback ==
    /\ ViaFallback
    /\ rAlias.ok
    /\ TheDef.hasAlias
    /\ TheDef.alias = <<"h">>
    /\ rAlias.val = <<"d", ".", "a">>

\* Without a display alias both routes give the same alias.
C27_WitnessSame ==
    /\ ViaJoinedRef
    /\ rAlias.ok
    /\ ~TheDef.hasAlias
    /\ FallbackAlias.val.alias = rAlias.val

-----------------------------------------------------------------------------
(* C28: the discovered keys as pivot paths *)

\* A key of the discovery result has been handed to the resolver and the
\* resolver has run on it.
KeyUsed == Discovered /\ rPc \in {"ref", "alias", "attr", "error"}

\* Grouping names, the dimension names of each grouping and the model-level
\* dimension names are unique.
WellNamed(m) ==
    /\ UniqueNames(m.datasetGroups)
    /\ \A g \in DOMAIN m.datasetGroups : UniqueNames(m.datasetGroups[g].dimensions)
    /\ UniqueNames(ModelDimensions(m))

\* A DimensionRef with inline attributes whose name is also that of a
\* model-level definition.
InlineAndDefined(m) ==
    \E g \in DOMAIN m.datasetGroups : \E j \in DOMAIN m.datasetGroups[g].dimensions :
        /\ m.datasetGroups[g].dimensions[j].hasAttributes
        /\ isConformed(m, m.datasetGroups[g].dimensions[j].name, <<>>)

C28_WitnessQualified ==
    /\ KeyUsed
    /\ rPc = "attr"
    /\ WellNamed(uCall.model)
    /\ Len(rSegs) = 3
    /\ rRef.val.dimension.hasAttributes
    /\ rAlias.val = rPath

\* The 2-part key of an attribute that only the second grouping's
\* degenerate reference has: not found.
C28_WitnessUnusable ==
    /\ KeyUsed
    /\ rPc = "error"
    /\ WellNamed(uCall.model)
    /\ InlineAndDefined(uCall.model)
    /\ Len(rSegs) = 2
    /\ rAlias.err = "AttributeNotFound"

-----------------------------------------------------------------------------
(* Dimension path utilities (utils.ts:384-446)                              *)
(*   ParsedDimensionPath [raw, hasGroup, datasetGroup, dimension,           *)
(*                        attribute, isQualified]                           *)

NoParsed == [raw |-> <<>>, hasGroup |-> FALSE, datasetGroup |-> <<>>,
             dimension |-> <<>>, attribute |-> <<>>, isQualified |-> FALSE]

\* utils.ts:387-406 on parts = path.split('.')
ParsedOfParts(path, parts) ==
    IF Len(parts) = 3
    THEN Ok([raw |-> path, hasGroup |-> TRUE, datasetGroup |-> parts[1],
             dimension |-> parts[2], attribute |-> parts[3], isQualified |-> TRUE])
    ELSE IF Len(parts) = 2
    THEN Ok([raw |-> path, hasGroup |-> FALSE, datasetGroup |-> <<>>,
             dimension |-> parts[1], attribute |-> parts[2], isQualified |-> FALSE])
    ELSE Throw("InvalidDimensionPath", NoParsed)

\* utils.ts:384-407
parseDimensionPath(path) == ParsedOfParts(path, Split(path, "."))

isQualifiedPathBug(path) == Len(Split(path, ".")) >= 3

\* utils.ts:444-446
isQualifiedPath(path) == Len(Split(path, ".")) = 3

\* The resolver call on a path and model, followed by parseDimensionPath
\* and isQualifiedPath on the same path.
InitPaths ==
    /\ PivotIdle
    /\ rModel \in ResolverModels
    /\ rSegs \in SegmentLists
    /\ rPath = Path(rSegs)
    /\ rPc = "call"
    /\ rRef = Throw("none", NoRef)
    /\ rAlias = Throw("none", <<>>)
    /\ rAttr = NoAttributeFound
    /\ rPrior = NoCalls
    /\ uCall = [fn |-> "parseDimensionPath", model |-> NoModel, segs |-> rSegs,
                paths |-> <<rPath>>]
    /\ uPc = "call"
    /\ uRet = [parsed |-> Throw("none", NoParsed), qualified |-> FALSE]

CallParseDimensionPath ==
    /\ rPc \in {"attr", "error"}
    /\ uPc = "call"
    /\ uCall.fn = "parseDimensionPath"
    /\ uRet' = [uRet EXCEPT !.parsed = parseDimensionPath(uCall.paths[1])]
    /\ uPc' = "parsed"
    /\ UNCHANGED uCall
    /\ UNCHANGED pivotVars
    /\ UNCHANGED resolverVars

CallIsQualifiedPath ==
    /\ uPc = "parsed"
    /\ uRet' = [uRet EXCEPT !.qualified = isQualifiedPath(uCall.paths[1])]
    /\ uPc' = "done"
    /\ UNCHANGED uCall
    /\ UNCHANGED pivotVars
    /\ UNCHANGED resolverVars

NextPaths ==
    \/ CallGetAttributeRef
    \/ CallAttributeAlias
    \/ CallGetAttribute
    \/ CallParseDimensionPath
    \/ CallIsQualifiedPath

SpecPaths == InitPaths /\ [][NextPaths]_vars

-----------------------------------------------------------------------------
(* C29 *)

Classified == uCall.fn = "parseDimensionPath" /\ uPc = "done"

\* The first grouping of the resolver call's model with the given name
\* declares the dimension.
FirstGroupingDeclares(gn, dn) ==
    LET gs == {g \in DOMAIN rModel.datasetGroups : rModel.datasetGroups[g].name = gn}
    IN  gs # {} /\ Least(gs) \in GroupsDeclaring(dn)

\* C29: parseDimensionPath throws exactly when the resolver rejects the
\* path with InvalidPathFormat, i.e. when its segment count is neither 2 nor
\* 3; isQualifiedPath is true exactly when parseDimensionPath succeeds with
\* isQualified = true; for a 3-segment path the parsed datasetGroup,
\* dimension and attribute are the names the resolver looks up and puts in
\* its reference.
C29_ClassifiersAgree ==
    Classified =>
        LET p == uRet.parsed
            n == Len(Split(rPath, "."))
        IN  /\ ~p.ok <=> (~rRef.ok /\ rRef.err = "InvalidPathFormat")
            /\ ~p.ok <=> n \notin {2, 3}
            /\ uRet.qualified <=> (p.ok /\ p.val.isQualified)
            /\ p.ok => p.val.raw = rPath
            /\ n = 2 => /\ p.ok
                        /\ ~p.val.isQualified
                        /\ ~p.val.hasGroup
                        /\ rRef.ok => /\ rRef.val.dimension.name = p.val.dimension
                                      /\ rRef.val.attribute = p.val.attribute
            /\ n = 3 =>
                   /\ p.ok
                   /\ p.val.isQualified
                   /\ p.val.hasGroup
                   /\ Path(<<p.val.datasetGroup, p.val.dimension, p.val.attribute>>)
                          = rPath
                   /\ rRef.ok => /\ rRef.val.hasQualifier
                                 /\ rRef.val.datasetGroupQualifier = p.val.datasetGroup
                                 /\ rRef.val.dimension.name = p.val.dimension
                                 /\ rRef.val.attribute = p.val.attribute
                   /\ rRef.ok <=> FirstGroupingDeclares(p.val.datasetGroup,
                                                        p.val.dimension)
                   /\ (~rRef.ok /\ rRef.err = "GroupingNotFound")
                          <=> p.val.datasetGroup \notin GroupNames(rModel)

\* A 3-segment path the resolver accepts.
C29_Witness ==
    /\ Classified
    /\ uRet.qualified
    /\ uRet.parsed.ok
    /\ rRef.ok
    /\ rRef.val.datasetGroupQualifier = <<"g">>
    /\ uRet.parsed.val.datasetGroup = <<"g">>
    /\ uRet.parsed.val.dimension = <<"d">>
    /\ uRet.parsed.val.attribute = <<"a">>

\* A 4-segment path: both reject it, and it is not qualified.
C29_WitnessRejected ==
    /\ Classified
    /\ Len(rSegs) = 4
    /\ ~uRet.parsed.ok
    /\ rRef.err = "InvalidPathFormat"
    /\ ~uRet.qualified

-----------------------------------------------------------------------------
(* C30: getAttribute and attributeAlias on one reference *)

\* The first model-level definition of the reference's dimension name.
DefOf(dims, ref) == dims[Least(DefsOf(dims, ref))]

\* C30: on every reference for which attributeAlias succeeds, getAttribute
\* returns a defined attribute of the reference's attribute name from the
\* tier the alias was derived from: the first inline attribute of that name
\* when the DimensionRef has one (the alias then carries the DimensionRef's
\* name), else the first attribute of that name of the model-level
\* definition (the alias then carries its display alias or name); the alias
\* ends in the name of the attribute returned.
C30_SameTier ==
    rPc = "attr" =>
        LET ref == rRef.val
            dims == ModelDimensions(rModel)
        IN  /\ rAlias.ok
            /\ rAttr.def
            /\ rAttr.v.name = ref.attribute
            /\ InlineMatches(ref) # {} =>
                   /\ rAttr.v = ref.dimension.attributes[Least(InlineMatches(ref))]
                   /\ rAlias.val = QualifierPrefix(ref) \o ref.dimension.name
                                       \o <<".">> \o rAttr.v.name
            /\ InlineMatches(ref) = {} =>
                   /\ DefsOf(dims, ref) # {}
                   /\ Named(DefOf(dims, ref).attributes, ref.attribute) # {}
                   /\ rAttr.v = DefOf(dims, ref).attributes[
                                    Least(Named(DefOf(dims, ref).attributes, ref.attribute))]
                   /\ rAlias.val = QualifierPrefix(ref) \o DimAlias(DefOf(dims, ref))
                                       \o <<".">> \o rAttr.v.name

\* The inline attribute a (no type) of a degenerate reference whose
\* model-level definition has an attribute a of type date.
C30_Witness ==
    /\ rPc = "attr"
    /\ InlineMatches(rRef.val) # {}
    /\ DefsOf(ModelDimensions(rModel), rRef.val) # {}
    /\ rAttr.v = AttrA
    /\ AttrADate \in {DefOf(ModelDimensions(rModel), rRef.val).attributes[i] :
                         i \in DOMAIN DefOf(ModelDimensions(rModel), rRef.val).attributes}
    /\ rAlias.val = <<"h", ".", "d", ".", "a">>

\* The model-level tier: a joined reference, alias and attribute from the
\* definition.
C30_WitnessModelLevel ==
    /\ rPc = "attr"
    /\ ~rRef.val.dimension.hasAttributes
    /\ rAttr.v = AttrADate
    /\ rAlias.val = <<"g", ".", "d", ".", "a">>

====
